---------------------------- MODULE Spec2Model ----------------------------
(***************************************************************************)
(* Notebook ingestion pipeline and adaptive batch embedder of              *)
(* py_backend/main.py (ClaraVerse).                                        *)
(*                                                                         *)
(* Spec      : the notebook / document store, its request handlers and     *)
(*             the background ingestion jobs.  Handlers run on one asyncio *)
(*             event loop, so every action is the code between two         *)
(*             suspension points (await) of one handler or job.            *)
(* SpecEmbed : one call of embedding_func_lambda / batch_embed_texts       *)
(*             against a backend that may reject any call.                 *)
(* SpecWindow: the windowing expression of the embedder, applied to every  *)
(*             text length up to MaxLen.                                   *)
(* SpecRetry, SpecRetryFair : one call of the retrying embedding client.   *)
(* SpecQuery : one query_notebook request and its fallback call.           *)
(* SpecSummary, SpecFingerprint : the summary cache and its fingerprint.   *)
(* SpecDeletion : one document, its ingestion task against its deletion.   *)
(* SpecConfig : provider resolution and validation of one request.         *)
(* SpecPersist, SpecPersistFair : the three collections in memory and in   *)
(*             their files.                                                *)
(* SpecLoad  : the three loads at module load.                             *)
(* SpecCitations : the citations of one query response.                    *)
(* SpecStagger : the delays of the ingestion tasks of one upload.          *)
(* SpecInstances : the engine instance cache of one notebook.              *)
(***************************************************************************)
EXTENDS Integers, Sequences, FiniteSets, Bags, TLC

(* ----------------------------- bounds ---------------------------------- *)
MaxNotebooks == 2
MaxDocs == 2
MaxReqs == 2
MaxTexts == 5
MaxLen == 1000
MaxTopK == 40
MaxSummaries == 3
MaxClock == 3
MaxRuns == 2
MaxDeletes == 2
MaxChats == 2
MaxCompleted == 11
MaxChanges == 1
MaxFiles == 12
MaxGetters == 3

NotebookIds == 1..MaxNotebooks
DocIds == 1..MaxDocs

NoRec == [absent |-> TRUE]
Response(code, detail) == [code |-> code, detail |-> detail]
NoOutcome == [kind |-> "none", at |-> "none"]
NoError == [cls |-> "none", words |-> {}]

VARIABLES
  lightrag_notebooks_db,   \* notebook id -> record, or NoRec
  lightrag_documents_db,   \* document id -> record, or NoRec
  nextNb, nextDoc,         \* uuid4(): identifiers are never reused
  reqs,                    \* bag of the handlers suspended at an await
  queues,                  \* bag of the background task queues of the responses sent
  inserted,                \* documents of the store for which rag.ainsert was called
  deleted_notebooks        \* notebooks a delete_notebook request has removed

VARIABLES
  ephase,            \* where the call of embedding_func_lambda stands
  provider,          \* embedding provider class of the engine instance
  texts,             \* the argument of embedding_func_lambda: one length per text
  sub,               \* texts argument of the running batch_embed_texts
  batch_size,        \* batch_size argument of the running batch_embed_texts
  pos,               \* loop variable i of batch_embed_texts
  all_embeddings,    \* all_embeddings of batch_embed_texts
  tpos,              \* local gateway: texts already handled by the outer loop
  final_embeddings,  \* final_embeddings, and in the end the value returned
  outcome,           \* how the call ended
  wtext, wparams, chunks  \* one application of the windowing expression

VARIABLES
  rphase,                   \* where the call of base_openai_compatible_embed stands
  is_clara_core_embedding,  \* the client talks to the local gateway (port 8091)
  attempt,                  \* loop variable of "for attempt in range(max_retries)"
  calls,                    \* backend requests (openai_embed) made by the call
  slept,                    \* asyncio.sleep(retry_delay) calls made by the call
  sleeps,                   \* the seconds of each of these sleeps, in order
  raised                    \* the exception that left the call

VARIABLES
  qphase,          \* where the handler query_notebook stands
  query,           \* the request, with what the handler derives from its texts
  adjusted_mode,   \* local variable adjusted_mode
  adjusted_top_k,  \* local variable adjusted_top_k
  engine_calls,    \* the QueryParam of every rag.aquery call, in order
  qerror           \* class of the exception answered with status 500

VARIABLES
  notebook_docs,             \* the documents of one notebook, in dictionary order
  next_upload,               \* uuid4() and datetime.now() of the next upload
  summary_cache,             \* key summary_cache of the notebook, or NoRec
  docs_fingerprint,          \* key docs_fingerprint of the notebook, or NoRec
  current_docs_fingerprint,  \* local of the summary request awaiting the engine
  summary_queries,           \* rag.aquery calls made by summary requests
  started,                   \* summary requests received
  last_summary,              \* response to the latest summary request answered
  changed,                   \* completions and deletions since that request read the documents
  engine_read,               \* documents the engine retrieved from in the running rag.aquery
  cached_over                \* documents the stored summary was computed over

VARIABLES
  document,         \* the record of one uploaded document, or NoRec
  job_pc,           \* where the document's process_notebook_document task stands
  prefixed_doc_id,  \* engine id of the task's insert: one per run of the task
  engine_docs,      \* ids of the entries the engine holds for the document
  del_pc,           \* where the delete_notebook_document request stands
  lightrag_id,      \* local lightrag_id of the delete request
  deletes,          \* delete requests received
  del_response      \* status of the latest delete response, 0 before any

VARIABLES
  cfg_pc,                       \* where the request that builds an engine instance stands
  caller,                       \* the handler that calls create_lightrag_instance
  llm_provider,                 \* LLM provider configuration as the request gives it
  embedding_provider,           \* embedding provider configuration of the request or notebook
  corrected_llm_provider,       \* configuration passed to create_lightrag_instance
  corrected_embedding_provider, \* configuration passed to create_lightrag_instance
  provider_calls,               \* calls made to a provider or to the engine storages
  http_status                   \* status of the response, 0 before it

VARIABLES
  mem_notebook,       \* lightrag_notebooks_db: the record of the one notebook, or NoRec
  mem_documents,      \* lightrag_documents_db: document id -> status, or "absent"
  chat_history_db,    \* the notebook's message list, if the key is present
  notebooks_file,     \* content of NOTEBOOKS_DB_FILE
  documents_file,     \* content of DOCUMENTS_DB_FILE
  chat_history_file,  \* content of CHAT_HISTORY_DB_FILE
  nb_pc,              \* the notebook: "none", "creating", "refused", "open" or "deleted"
  upload_pc,          \* the upload request: "off" or "reading" (awaiting a file)
  next_document,      \* uuid4() of the next document
  bg_tasks,           \* document id -> where its ingestion task stands
  chats               \* chat request -> where its handler stands

VARIABLES
  metadata_files,  \* collection -> what is at the path of its metadata file
  loaded,          \* collection -> the dictionary after its load: "empty" or "data"
  load_pc,         \* the load_*_db call the module has reached (1..3), 4 after them
  startup          \* "loading", "started", or "failed" when an exception left a load

VARIABLES
  cit_documents,   \* lightrag_documents_db.values(): notebook and status per document
  cit_pc,          \* where the query_notebook request stands
  citations,       \* field citations of the response
  status_changes   \* status changes of documents during the request

VARIABLES
  upload_files,    \* parameter files of the upload request: one kind per file
  file_index,      \* loop variable i of "for i, file in enumerate(files)"
  delayed_tasks,   \* background_tasks of the request: position and delay_seconds
  stagger_pc,      \* where the upload request stands
  running,         \* index of the task that runs, in the order they were added
  slept_seconds,   \* per task: seconds of asyncio.sleep that have elapsed
  processing       \* tasks that have called process_notebook_document

VARIABLES
  cached_notebook,     \* the notebook is in lightrag_notebooks_db
  lightrag_instances,  \* the notebook's entry of lightrag_instances, 0 without the key
  get_pc,              \* each caller of get_lightrag_instance: where it stands
  returned_rag,        \* the instance a caller builds and, in the end, is given
  instances_built      \* LightRAG objects constructed for the notebook

pvars == <<lightrag_notebooks_db, lightrag_documents_db, nextNb, nextDoc,
           reqs, queues, inserted, deleted_notebooks>>
evars == <<ephase, provider, texts, sub, batch_size, pos, all_embeddings,
           tpos, final_embeddings, outcome, wtext, wparams, chunks>>
rvars == <<rphase, is_clara_core_embedding, attempt, calls, slept, sleeps,
           raised>>
qvars == <<qphase, query, adjusted_mode, adjusted_top_k, engine_calls, qerror>>
svars == <<notebook_docs, next_upload, summary_cache, docs_fingerprint,
           current_docs_fingerprint, summary_queries, started, last_summary,
           changed, engine_read, cached_over>>
dvars == <<document, job_pc, prefixed_doc_id, engine_docs, del_pc, lightrag_id,
           deletes, del_response>>
cvars == <<cfg_pc, caller, llm_provider, embedding_provider,
           corrected_llm_provider, corrected_embedding_provider,
           provider_calls, http_status>>
fvars == <<mem_notebook, mem_documents, chat_history_db, notebooks_file,
           documents_file, chat_history_file, nb_pc, upload_pc, next_document,
           bg_tasks, chats>>
lvars == <<metadata_files, loaded, load_pc, startup>>
tvars == <<cit_documents, cit_pc, citations, status_changes>>
gvars == <<upload_files, file_index, delayed_tasks, stagger_pc, running,
           slept_seconds, processing>>
ivars == <<cached_notebook, lightrag_instances, get_pc, returned_rag,
           instances_built>>
wvars == <<lvars, tvars, gvars, ivars>>
zvars == <<cvars, fvars, wvars>>
xvars == <<rvars, qvars, svars, dvars, zvars>>
not_cvars == <<pvars, evars, rvars, qvars, svars, dvars, fvars, wvars>>
not_fvars == <<pvars, evars, rvars, qvars, svars, dvars, cvars, wvars>>
not_wvars == <<pvars, evars, rvars, qvars, svars, dvars, cvars, fvars>>
not_lvars == <<not_wvars, tvars, gvars, ivars>>
not_tvars == <<not_wvars, lvars, gvars, ivars>>
not_gvars == <<not_wvars, lvars, tvars, ivars>>
not_ivars == <<not_wvars, lvars, tvars, gvars>>
vars == <<pvars, evars, xvars>>

(* ------------------------- small helpers ------------------------------- *)
NotebookExists(n) == lightrag_notebooks_db[n] # NoRec
DocExists(d) == lightrag_documents_db[d] # NoRec
DocsOf(db, n) == {d \in DocIds : db[d] # NoRec /\ db[d].notebook_id = n}
Min(a, b) == IF a <= b THEN a ELSE b
One(x) == SetToBag({x})
Replace(bag, x, y) == (bag (-) One(x)) (+) One(y)

(* ------------------------- document records ---------------------------- *)
\* upload_notebook_documents, document_data: the record of a new document.
\* content_file is TRUE when the record names a content_<id>.txt; the file of
\* a record is unlinked only where the key or the record is removed, so it
\* exists as long as a record names it
NewDocument(n, hasFile) ==
  [notebook_id |-> n, status |-> "processing", content |-> TRUE,
   content_file |-> hasFile, error |-> FALSE, failed_at |-> FALSE,
   lightrag_id |-> FALSE]

\* process_notebook_document: "Set document status to processing before starting"
MarkProcessing(doc) == [doc EXCEPT !.status = "processing"]

\* process_notebook_document: "Update document status to completed"
MarkCompleted(doc) ==
  [doc EXCEPT !.status = "completed", !.lightrag_id = TRUE, !.error = FALSE,
              !.content = FALSE, !.content_file = FALSE]

\* variant: the failure path also drops the stored content
MarkFailedDropContent(doc) ==
  [doc EXCEPT !.status = "failed", !.error = TRUE, !.failed_at = TRUE,
              !.content = FALSE, !.content_file = FALSE]

\* process_notebook_document, except branch: "Update document status to failed"
MarkFailed(doc) ==
  [doc EXCEPT !.status = "failed", !.error = TRUE, !.failed_at = TRUE]

\* variant: only completed documents are refused
RetryableUnlessCompleted(doc) == doc.status # "completed"

\* retry_failed_document: "Check if document is in a retryable state"
Retryable(doc) == doc.status \in {"failed"}

\* retry_failed_document: document_data.get("content"), else the content file
ContentAvailable(doc) == doc.content \/ doc.content_file

\* retry_failed_document: "Reset document status to processing" and
\* "Clear previous error information" (the keys failed_at, error_message and
\* error_details are deleted; the key error is not among them)
ResetForRetry(doc) == [doc EXCEPT !.status = "processing", !.failed_at = FALSE]

\* variant: the count is left as it is
KeepCount(nb) == nb

\* variant: the upload counts a document twice
IncrementTwice(nb) == [nb EXCEPT !.document_count = @ + 2]

\* upload_notebook_documents: document_count += 1
IncrementCount(nb) == [nb EXCEPT !.document_count = @ + 1]

\* delete_notebook_document: document_count -= 1
DecrementCount(nb) == [nb EXCEPT !.document_count = @ - 1]

(* history field of an upload request: quiet is TRUE while no other handler *)
(* has changed the documents or the count of the request's notebook         *)
Disturbed(e, n) ==
  IF e.op = "upload" /\ e.nb = n THEN [e EXCEPT !.quiet = FALSE] ELSE e

Disturb(bag, n) ==
  LET S == BagToSet(bag)
      T == {Disturbed(e, n) : e \in S}
      Twin(x) == [x EXCEPT !.quiet = TRUE]
  IN [x \in T |->
        CopiesIn(x, bag) +
        (IF x.op = "upload" /\ x.nb = n /\ Twin(x) # x
         THEN CopiesIn(Twin(x), bag) ELSE 0)]

(* ------------------------- create_notebook ----------------------------- *)
\* up to "await create_lightrag_instance": the notebook is already in the db
CreateNotebookBegin ==
  /\ BagCardinality(reqs) < MaxReqs
  /\ nextNb <= MaxNotebooks
  /\ lightrag_notebooks_db' =
       [lightrag_notebooks_db EXCEPT ![nextNb] = [document_count |-> 0]]
  /\ nextNb' = nextNb + 1
  /\ reqs' = reqs (+) One([op |-> "create", nb |-> nextNb])
  /\ UNCHANGED <<lightrag_documents_db, nextDoc, queues,
                 inserted, deleted_notebooks, evars, xvars>>

\* create_lightrag_instance raised: every raise of it precedes its first
\* await (the awaits of the storage initialization catch what they raise),
\* so the record is stored and, "Clean up if LightRAG creation fails",
\* deleted again before any other request runs; the uuid is used up
CreateNotebookFails ==
  /\ nextNb <= MaxNotebooks
  /\ nextNb' = nextNb + 1
  /\ lightrag_notebooks_db' =
       [[lightrag_notebooks_db EXCEPT ![nextNb] = [document_count |-> 0]]
          EXCEPT ![nextNb] = NoRec]
  /\ UNCHANGED <<lightrag_documents_db, nextDoc, reqs, queues, inserted,
                 deleted_notebooks, evars, xvars>>

\* create_lightrag_instance returned: save_notebooks_db and the response
\* (when the notebook was deleted meanwhile, a KeyError and status 500; the
\* dictionary is left as it is either way)
CreateNotebookEnd(c) ==
  /\ BagIn(c, reqs)
  /\ c.op = "create"
  /\ reqs' = reqs (-) One(c)
  /\ UNCHANGED <<lightrag_notebooks_db, lightrag_documents_db, nextNb, nextDoc,
                 queues, inserted, deleted_notebooks, evars, xvars>>

(* ------------------------- delete_notebook ----------------------------- *)
\* no await in the handler: one step (404 when the notebook is unknown)
DeleteNotebook(n) ==
  /\ NotebookExists(n)
  /\ lightrag_documents_db' =
       [d \in DocIds |->
          IF d \in DocsOf(lightrag_documents_db, n) THEN NoRec
          ELSE lightrag_documents_db[d]]
  /\ lightrag_notebooks_db' = [lightrag_notebooks_db EXCEPT ![n] = NoRec]
  /\ reqs' = Disturb(reqs, n)
  /\ inserted' = inserted \ DocsOf(lightrag_documents_db, n)
  /\ deleted_notebooks' = deleted_notebooks \cup {n}
  /\ UNCHANGED <<nextNb, nextDoc, queues, evars, xvars>>

(* --------------------- upload_notebook_documents ----------------------- *)
FileKinds == {"ok", "big", "blank", "noname", "bad"}

\* the response to a request that does not get past its first checks
UploadBeginResponse(n, empty) ==
  IF ~NotebookExists(n) THEN Response(404, "notebook")
  ELSE IF empty THEN Response(400, "files")
  ELSE Response(0, "pending")

\* validate_notebook_exists, "No files provided", then the first await
UploadBegin(n, empty) ==
  /\ BagCardinality(reqs) < MaxReqs
  /\ IF UploadBeginResponse(n, empty).code # 0
     THEN UNCHANGED reqs
     ELSE reqs' = reqs (+) One(
                    [op |-> "upload", nb |-> n, tasks |-> <<>>,
                     c0 |-> lightrag_notebooks_db[n].document_count,
                     quiet |-> TRUE])
  /\ UNCHANGED <<lightrag_notebooks_db, lightrag_documents_db, nextNb, nextDoc, queues, inserted, deleted_notebooks, evars, xvars>>

\* the response carries the BackgroundTasks of the request; Starlette runs
\* them one after the other once the response has been sent
Schedule(tasks) ==
  IF tasks = <<>> THEN queues
  ELSE queues (+) One([pc |-> "scheduled", jobs |-> tasks])

\* the response of the iteration for a file of this kind: 0 while the loop
\* goes on, 200 after the last file, 500 when the iteration raises
UploadFileResponse(u, kind, last) ==
  IF kind = "bad" THEN Response(500, "extract")
  ELSE IF kind \in {"ok", "big"} /\ ~NotebookExists(u.nb)
  THEN Response(500, "notebook")
  ELSE IF last THEN Response(200, "uploaded")
  ELSE Response(0, "pending")

\* one iteration of "for i, file in enumerate(files)" after file.read() and
\* extract_text_from_file returned; after the last file the handler saves and
\* returns without suspending again
UploadFile(u, kind, wrote, last) ==
  /\ BagIn(u, reqs)
  /\ u.op = "upload"
  /\ LET n == u.nb
         rest == reqs (-) One(u)
         code == UploadFileResponse(u, kind, last).code
         Finish(v, rs) ==
           IF code = 200
           THEN /\ reqs' = rs
                /\ queues' = Schedule(v.tasks)
           ELSE /\ reqs' = rs (+) One(v)
                /\ UNCHANGED queues
     IN
     CASE kind \in {"noname", "blank"} ->
            /\ wrote = FALSE
            /\ Finish(u, rest)
            /\ UNCHANGED <<lightrag_notebooks_db, lightrag_documents_db,
                           nextDoc>>
       [] kind = "bad" ->
            \* extraction raised: HTTPException 500, the tasks are dropped
            /\ wrote = FALSE
            /\ reqs' = rest
            /\ UNCHANGED <<lightrag_notebooks_db, lightrag_documents_db,
                           nextDoc, queues>>
       [] kind \in {"ok", "big"} ->
            /\ nextDoc <= MaxDocs
            /\ (kind = "ok" => wrote = FALSE)
            /\ LET d == nextDoc
                   v == [u EXCEPT !.tasks = Append(@, [nb |-> n, doc |-> d])]
               IN
               /\ nextDoc' = nextDoc + 1
               /\ lightrag_documents_db' =
                    [lightrag_documents_db EXCEPT ![d] = NewDocument(n, wrote)]
               /\ IF code # 500
                  THEN /\ lightrag_notebooks_db' =
                            [lightrag_notebooks_db EXCEPT
                               ![n] = IncrementCount(@)]
                       /\ Finish(v, Disturb(rest, n))
                  ELSE \* KeyError on document_count: HTTPException 500
                       /\ UNCHANGED <<lightrag_notebooks_db, queues>>
                       /\ reqs' = rest
  /\ UNCHANGED <<nextNb, inserted, deleted_notebooks, evars, xvars>>

(* ------------------------ retry_failed_document ------------------------ *)
\* the checks of the handler, in order, and the response they lead to
RetryResponse(n, d) ==
  LET doc == lightrag_documents_db[d] IN
  IF ~NotebookExists(n) THEN Response(404, "notebook")
  ELSE IF ~DocExists(d) THEN Response(404, "document")
  ELSE IF doc.notebook_id # n THEN Response(400, "belongs")
  ELSE IF ~Retryable(doc) THEN Response(400, "state")
  ELSE IF ~ContentAvailable(doc) THEN Response(400, "content")
  ELSE Response(200, "processing")

\* no await in the handler: one step
RetryDocument(n, d) ==
  /\ IF RetryResponse(n, d).code # 200
     THEN UNCHANGED <<lightrag_documents_db, queues>>
     ELSE /\ lightrag_documents_db' =
               [lightrag_documents_db EXCEPT ![d] = ResetForRetry(@)]
          /\ queues' = Schedule(<<[nb |-> n, doc |-> d]>>)
  /\ UNCHANGED <<lightrag_notebooks_db, nextNb, nextDoc, reqs,
                 inserted, deleted_notebooks, evars, xvars>>

(* ------------------- process_notebook_document (job) ------------------- *)
\* the head task of a queue is done: the next one of the queue is due
Dequeue(q) ==
  IF Len(q.jobs) = 1 THEN queues (-) One(q)
  ELSE Replace(queues, q, [pc |-> "scheduled", jobs |-> Tail(q.jobs)])

\* variant: a failed job stays at the head of its queue and runs again
JobFailedRequeue(q) ==
  LET d == Head(q.jobs).doc IN
  /\ lightrag_documents_db' =
       IF DocExists(d) THEN [lightrag_documents_db EXCEPT ![d] = MarkFailed(@)]
       ELSE lightrag_documents_db
  /\ queues' = Replace(queues, q, [q EXCEPT !.pc = "scheduled"])
  /\ UNCHANGED inserted

\* variant: a failed job takes the tasks queued behind it with it
JobFailedDropsQueue(q) ==
  LET d == Head(q.jobs).doc IN
  /\ lightrag_documents_db' =
       IF DocExists(d) THEN [lightrag_documents_db EXCEPT ![d] = MarkFailed(@)]
       ELSE lightrag_documents_db
  /\ queues' = queues (-) One(q)
  /\ UNCHANGED inserted

\* except Exception: the document, if it is still there, becomes failed
JobFailed(q) ==
  LET d == Head(q.jobs).doc IN
  /\ lightrag_documents_db' =
       IF DocExists(d) THEN [lightrag_documents_db EXCEPT ![d] = MarkFailed(@)]
       ELSE lightrag_documents_db
  /\ queues' = Dequeue(q)
  /\ UNCHANGED inserted

\* the delay has elapsed and get_lightrag_instance returned (rag) or raised
\* (~rag); then everything up to the call of rag.ainsert
JobBegin(q, rag) ==
  /\ BagIn(q, queues)
  /\ q.pc = "scheduled"
  /\ LET n == Head(q.jobs).nb
         d == Head(q.jobs).doc
     IN
     IF ~rag \/ ~NotebookExists(n) \/ ~DocExists(d)
     THEN \* HTTPException of get_lightrag_instance, or KeyError on
          \* lightrag_notebooks_db[notebook_id], lightrag_documents_db[document_id]
          JobFailed(q)
     ELSE /\ lightrag_documents_db' =
               [lightrag_documents_db EXCEPT ![d] = MarkProcessing(@)]
          /\ inserted' = inserted \cup {d}
          /\ queues' = Replace(queues, q, [q EXCEPT !.pc = "inserting"])
  /\ UNCHANGED <<lightrag_notebooks_db, nextNb, nextDoc, reqs, deleted_notebooks, evars, xvars>>

\* rag.ainsert returned (ok), raised or timed out.  After a return the job
\* awaits rag.aclear_cache, whose failure is only logged, and then records the
\* completion; nothing of the store changes between the two awaits, so they
\* are one wait here
JobInserted(q, ok) ==
  /\ BagIn(q, queues)
  /\ q.pc = "inserting"
  /\ LET d == Head(q.jobs).doc IN
     IF ~ok THEN JobFailed(q)
     ELSE /\ lightrag_documents_db' =
               IF DocExists(d)
               THEN [lightrag_documents_db EXCEPT ![d] = MarkCompleted(@)]
               ELSE lightrag_documents_db
          /\ queues' = Dequeue(q)
          /\ UNCHANGED inserted
  /\ UNCHANGED <<lightrag_notebooks_db, nextNb, nextDoc, reqs, deleted_notebooks, evars, xvars>>

(* ---------------------- delete_notebook_document ----------------------- *)
\* the response to a request that does not get past its first checks
DeleteBeginResponse(n, d) ==
  IF ~NotebookExists(n) THEN Response(404, "notebook")
  ELSE IF ~DocExists(d) THEN Response(404, "document")
  ELSE IF lightrag_documents_db[d].notebook_id # n THEN Response(400, "belongs")
  ELSE Response(0, "pending")

\* the checks, then the first await (get_lightrag_instance, adelete_by_doc_id)
DeleteDocumentBegin(n, d) ==
  /\ BagCardinality(reqs) < MaxReqs
  /\ DeleteBeginResponse(n, d).code = 0
  /\ reqs' = reqs (+) One([op |-> "delete", nb |-> n, doc |-> d])
  /\ UNCHANGED <<lightrag_notebooks_db, lightrag_documents_db, nextNb, nextDoc, queues, inserted, deleted_notebooks, evars, xvars>>

\* which of the awaited engine calls raised, if any
DeleteFaults == {"none", "instance", "engine", "cache"}

\* except Exception: every failure inside the try block is a 500
DeleteEndResponse(x, fault) ==
  IF fault # "none" THEN Response(500, fault)
  ELSE IF ~DocExists(x.doc) THEN Response(500, "gone")
  ELSE IF ~NotebookExists(x.nb) THEN Response(500, "notebook")
  ELSE Response(200, "deleted")

\* get_lightrag_instance, rag.adelete_by_doc_id and rag.aclear_cache returned,
\* or one of them raised; then everything up to the return
DeleteDocumentEnd(x, fault) ==
  /\ BagIn(x, reqs)
  /\ x.op = "delete"
  /\ LET n == x.nb
         d == x.doc
         r == DeleteEndResponse(x, fault)
     IN
     IF r.detail \in (DeleteFaults \ {"none"}) \cup {"gone"}
     THEN \* an engine call raised, or KeyError on del lightrag_documents_db[..]
          /\ reqs' = reqs (-) One(x)
          /\ UNCHANGED <<lightrag_notebooks_db, lightrag_documents_db, inserted>>
     ELSE \* the content file of the record is unlinked, the record removed
          /\ lightrag_documents_db' =
               [lightrag_documents_db EXCEPT ![d] = NoRec]
          /\ reqs' = Disturb(reqs (-) One(x), n)
          /\ inserted' = inserted \ {d}
          /\ lightrag_notebooks_db' =
               IF r.code = 200
               THEN [lightrag_notebooks_db EXCEPT ![n] = DecrementCount(@)]
               ELSE lightrag_notebooks_db \* KeyError on document_count
  /\ UNCHANGED <<nextNb, nextDoc, queues, deleted_notebooks, evars, xvars>>

(* ------------------- embedding_func_lambda, batching -------------------- *)
(* A text is represented by its length in characters, an embedding vector   *)
(* by the index of the input text it was computed from and its dimension.   *)
Providers == {"openai", "openai_compatible", "clara_core", "ollama"}
Outcomes == {"ok", "too_large", "other"}

\* values of range(j, stop, step)
RECURSIVE Range(_, _, _)
Range(j, stop, step) ==
  IF j >= stop THEN <<>> ELSE <<j>> \o Range(j + step, stop, step)

\* variant: windows that do not overlap
ChunksNoOverlap(L, W, step) ==
  LET r == Range(0, L, W)
  IN  [k \in 1..Len(r) |-> [lo |-> r[k], hi |-> Min(r[k] + W, L)]]

\* variant: every window is W long, the last one too
ChunksUnclamped(L, W, step) ==
  LET r == Range(0, L, step)
  IN  [k \in 1..Len(r) |-> [lo |-> r[k], hi |-> r[k] + W]]

\* [text[j:j+W] for j in range(0, len(text), step)] as slice bounds
Chunks(L, W, step) ==
  LET r == Range(0, L, step)
  IN  [k \in 1..Len(r) |-> [lo |-> r[k], hi |-> Min(r[k] + W, L)]]

\* the same list as texts of one source text
ChunkTexts(src, L, W, step) ==
  LET cs == Chunks(L, W, step)
  IN  [k \in 1..Len(cs) |-> [src |-> src, len |-> cs[k].hi - cs[k].lo]]

\* one vector per text of a backend call that succeeds
Vector(src) == [src |-> src, dim |-> "embedding_dim"]
Embed(batch) == [k \in 1..Len(batch) |-> Vector(batch[k].src)]

\* np.mean(chunk_array, axis=0): one vector of the dimension of its rows
Mean(vs) == [src |-> vs[1].src, dim |-> vs[1].dim]

\* batch size each provider branch passes to batch_embed_texts
OpenAIMaxBatch == 16
CompatMaxBatch == 16
OllamaMaxBatch == 4
OpenAIBatchSize(n) == IF n > OpenAIMaxBatch THEN OpenAIMaxBatch ELSE n
CompatBatchSize(n) == IF n > 0 THEN Min(CompatMaxBatch, n) ELSE 1
\* variant: the whole list in one batch
OllamaBatchSizeUncapped(n) == n
OllamaBatchSize(n) == IF n > OllamaMaxBatch THEN OllamaMaxBatch ELSE n
BatchSizeFor(p, n) ==
  CASE p = "openai" -> OpenAIBatchSize(n)
    [] p = "openai_compatible" -> CompatBatchSize(n)
    [] p = "ollama" -> OllamaBatchSize(n)

\* batch_size // 2 of the recursive call
Halved(b) == b \div 2

\* the local gateway splits a text longer than this before any backend call
NeedsSplit(l) == l > 400
\* batch_embed_texts re-chunks a rejected single text longer than this
CanRechunk(batch) == Len(batch) = 1 /\ batch[1].len > 200

\* batch = texts[i:i + batch_size]
Batch == SubSeq(sub, pos + 1, Min(pos + batch_size, Len(sub)))

\* batch_embed_texts returns vs to embedding_func_lambda
Return(vs) ==
  IF provider = "clara_core"
  THEN /\ final_embeddings' = final_embeddings \o
            (IF NeedsSplit(texts[tpos + 1]) THEN <<Mean(vs)>> ELSE vs)
       /\ tpos' = tpos + 1
       /\ ephase' = "lambda"
       /\ UNCHANGED outcome
  ELSE /\ final_embeddings' = vs
       /\ ephase' = "done"
       /\ outcome' = [kind |-> "returned", at |-> "lambda"]
       /\ UNCHANGED tpos

\* an exception leaves batch_embed_texts and embedding_func_lambda
Raise(kind, at) ==
  /\ ephase' = "done"
  /\ outcome' = [kind |-> kind, at |-> at]
  /\ UNCHANGED <<final_embeddings, tpos>>

\* all_embeddings.extend(vs), then the next batch or return all_embeddings
Advance(vs) ==
  /\ all_embeddings' = all_embeddings \o vs
  /\ pos' = pos + batch_size
  /\ IF pos + batch_size >= Len(sub)
     THEN Return(all_embeddings \o vs)
     ELSE ephase' = "loop" /\ UNCHANGED <<final_embeddings, tpos, outcome>>

\* embedding_func_lambda of the openai, openai_compatible and ollama branches
EmbeddingFuncLambda ==
  /\ ephase = "lambda" /\ provider # "clara_core"
  /\ sub' = [i \in 1..Len(texts) |-> [src |-> i, len |-> texts[i]]]
  /\ batch_size' = BatchSizeFor(provider, Len(texts))
  /\ ephase' = "invoke"
  /\ UNCHANGED <<provider, texts, pos, all_embeddings, tpos, final_embeddings,
                 outcome, wtext, wparams, chunks, pvars, xvars>>

\* local gateway branch: one turn of "for text in texts", or the return
ClaraCoreLambda ==
  /\ ephase = "lambda" /\ provider = "clara_core"
  /\ IF tpos = Len(texts)
     THEN /\ ephase' = "done"
          /\ outcome' = [kind |-> "returned", at |-> "lambda"]
          /\ UNCHANGED <<sub, batch_size>>
     ELSE /\ sub' = IF NeedsSplit(texts[tpos + 1])
                    THEN ChunkTexts(tpos + 1, texts[tpos + 1], 400, 350)
                    ELSE <<[src |-> tpos + 1, len |-> texts[tpos + 1]]>>
          /\ batch_size' = 1
          /\ ephase' = "invoke"
          /\ UNCHANGED outcome
  /\ UNCHANGED <<provider, texts, pos, all_embeddings, tpos, final_embeddings,
                 wtext, wparams, chunks, pvars, xvars>>

\* if len(texts) <= batch_size: return await embed_func(texts)
DirectCall(r) ==
  /\ ephase = "invoke" /\ Len(sub) <= batch_size
  /\ IF r = "ok" THEN Return(Embed(sub)) ELSE Raise(r, "direct")
  /\ UNCHANGED <<provider, texts, sub, batch_size, pos, all_embeddings,
                 wtext, wparams, chunks, pvars, xvars>>

\* otherwise the batch loop starts with an empty all_embeddings
EnterLoop ==
  /\ ephase = "invoke" /\ Len(sub) > batch_size
  /\ ephase' = "loop"
  /\ pos' = 0
  /\ all_embeddings' = <<>>
  /\ UNCHANGED <<provider, texts, sub, batch_size, tpos, final_embeddings,
                 outcome, wtext, wparams, chunks, pvars, xvars>>

\* embed_func(batch) succeeds
BatchOk ==
  /\ ephase = "loop"
  /\ Advance(Embed(Batch))
  /\ UNCHANGED <<provider, texts, sub, batch_size, wtext, wparams, chunks,
                 pvars, xvars>>

\* embed_func(batch) raises an error that is not about size: re-raised
BatchFailed ==
  /\ ephase = "loop"
  /\ Raise("other", "batch")
  /\ UNCHANGED <<provider, texts, sub, batch_size, pos, all_embeddings,
                 wtext, wparams, chunks, pvars, xvars>>

\* embed_func(batch) raises 'too large': halve and start over, or give up
BatchRejected ==
  /\ ephase = "loop"
  /\ ~(batch_size <= 1 /\ CanRechunk(Batch))
  /\ IF batch_size > 1
     THEN /\ batch_size' = Halved(batch_size)
          /\ ephase' = "invoke"
          /\ pos' = 0
          /\ all_embeddings' = <<>>
          /\ UNCHANGED <<final_embeddings, tpos, outcome>>
     ELSE /\ Raise("too_large", "single")
          /\ UNCHANGED <<batch_size, pos, all_embeddings>>
  /\ UNCHANGED <<provider, texts, sub, wtext, wparams, chunks, pvars, xvars>>

\* 'too large' at batch size 1 for a text over 200 characters: its windows
\* are embedded one by one; r = "ok" when every window call succeeds,
\* otherwise the error of the first window call that fails
BatchRechunked(r) ==
  /\ ephase = "loop"
  /\ batch_size <= 1 /\ CanRechunk(Batch)
  /\ IF r = "ok"
     THEN Advance(Embed(ChunkTexts(Batch[1].src, Batch[1].len, 200, 180)))
     ELSE Raise(r, "window") /\ UNCHANGED <<pos, all_embeddings>>
  /\ UNCHANGED <<provider, texts, sub, batch_size, wtext, wparams, chunks,
                 pvars, xvars>>

\* one application of the windowing expression to a text of wtext characters
ApplyWindowing ==
  /\ wtext > 0 /\ chunks = <<>>
  /\ chunks' = Chunks(wtext, wparams[1], wparams[2])
  /\ UNCHANGED <<wtext, wparams, pvars, xvars, ephase, provider, texts, sub,
                 batch_size, pos, all_embeddings, tpos, final_embeddings,
                 outcome>>

(* -------------- base_openai_compatible_embed (retrying client) ---------- *)
(* A failed attempt is asyncio.TimeoutError, or an exception of which only   *)
(* the marker words found in its lower-cased message matter.                 *)
RetryKeywords == {"connection", "timeout", "loading", "model"}
BatchSizeKeywords == {"too large", "batch size"}
OtherKeywords == {"not found", "unauthorized"}
TimeoutError == [cls |-> "TimeoutError", words |-> {}]
Failures ==
  {TimeoutError} \cup
  {[cls |-> "Exception", words |-> ws] :
     ws \in SUBSET (RetryKeywords \cup BatchSizeKeywords \cup OtherKeywords)}

\* max_retries = 5 if is_clara_core_embedding else 2
max_retries == IF is_clara_core_embedding THEN 5 ELSE 2

\* variant: the remote delay for both client classes
retry_delay_remote == IF is_clara_core_embedding THEN 3 ELSE 3

\* retry_delay = 10 if is_clara_core_embedding else 3
retry_delay == IF is_clara_core_embedding THEN 10 ELSE 3

\* variant: the attempt cap is tested one attempt too late
MoreAttemptsOffByOne(a) == a < max_retries

\* if attempt < max_retries - 1
MoreAttempts(a) == a < max_retries - 1

\* the failure of attempt a is followed by a sleep and another attempt:
\* a timeout, or a message with one of the retry keywords, while attempts
\* are left; the batch size test is reached only after the keyword test
Retried(f, a) ==
  /\ MoreAttempts(a)
  /\ \/ f.cls = "TimeoutError"
     \/ f.words \cap RetryKeywords # {}

\* what leaves the call when the failure is not retried: the last timeout is
\* replaced by Exception("Embedding request timed out after ... attempts.
\* Clara Core server may need more time to load the model."), any other
\* exception is re-raised as it is
Reraised(f) ==
  IF f.cls = "TimeoutError"
  THEN [cls |-> "Exception", words |-> {"model"}]
  ELSE f

\* openai_embed returned within request_timeout: return result
AttemptOk ==
  /\ rphase = "calling"
  /\ calls' = calls + 1
  /\ rphase' = "returned"
  /\ UNCHANGED <<is_clara_core_embedding, attempt, slept, sleeps, raised, pvars, evars, qvars, svars, dvars, zvars>>

\* openai_embed raised f or timed out
AttemptFails(f) ==
  /\ rphase = "calling"
  /\ calls' = calls + 1
  /\ IF Retried(f, attempt)
     THEN rphase' = "sleeping" /\ UNCHANGED raised
     ELSE rphase' = "raised" /\ raised' = Reraised(f)
  /\ UNCHANGED <<is_clara_core_embedding, attempt, slept, sleeps, pvars, evars, qvars, svars, dvars, zvars>>

\* await asyncio.sleep(retry_delay); continue
RetryDelayElapsed ==
  /\ rphase = "sleeping"
  /\ slept' = slept + 1
  /\ sleeps' = Append(sleeps, retry_delay)
  /\ attempt' = attempt + 1
  /\ rphase' = "calling"
  /\ UNCHANGED <<is_clara_core_embedding, calls, raised, pvars, evars, qvars, svars, dvars, zvars>>

(* ----------------------------- query_notebook --------------------------- *)
Modes == {"local", "global", "hybrid", "naive", "mix"}
ResponseTypes == {"Multiple Paragraphs", "Single Paragraph", "Bullet Points"}
\* an engine failure either carries one of the context size keywords or not
QueryErrors == {"context", "other"}
NoQuery ==
  [mode |-> "none", response_type |-> "none", top_k |-> 0,
   small_model |-> FALSE, long_question |-> FALSE]

QueryParam(mode, response_type, top_k) ==
  [mode |-> mode, response_type |-> response_type, top_k |-> top_k]

SmallModelTopK == 30
GlobalFallbackTopK == 20
HybridFallbackTopK == 15
MinimalTopK == 5

\* adjusted_top_k and adjusted_mode before the first engine call
AdjustedTopK(q) ==
  IF q.small_model THEN Min(q.top_k, SmallModelTopK) ELSE q.top_k
AdjustedMode(q) ==
  IF q.small_model /\ q.mode = "global" /\ q.long_question
  THEN "hybrid"
  ELSE q.mode

FallbackParamUncapped(mode, response_type, top_k) ==
  IF mode = "global" THEN QueryParam("local", response_type, top_k)
  ELSE IF mode = "hybrid" THEN QueryParam("naive", response_type, top_k)
  ELSE QueryParam("naive", "Single Paragraph", MinimalTopK)

\* fallback_param, chosen by adjusted_mode
FallbackParam(mode, response_type, top_k) ==
  IF mode = "global"
  THEN QueryParam("local", response_type, Min(GlobalFallbackTopK, top_k))
  ELSE IF mode = "hybrid"
  THEN QueryParam("naive", response_type, Min(HybridFallbackTopK, top_k))
  ELSE QueryParam("naive", "Single Paragraph", MinimalTopK)

LastCall == engine_calls[Len(engine_calls)]

\* from the request to the first await rag.aquery(question, param=query_param)
QueryBegin ==
  /\ qphase = "received"
  /\ adjusted_top_k' = AdjustedTopK(query)
  /\ adjusted_mode' = AdjustedMode(query)
  /\ engine_calls' = <<QueryParam(AdjustedMode(query), query.response_type,
                                  AdjustedTopK(query))>>
  /\ qphase' = "querying"
  /\ UNCHANGED <<query, qerror, pvars, evars, rvars, svars, dvars, zvars>>

\* the first call returns: NotebookQueryResponse(mode=adjusted_mode)
QueryAnswered ==
  /\ qphase = "querying"
  /\ qphase' = "answered"
  /\ UNCHANGED <<query, adjusted_mode, adjusted_top_k, engine_calls, qerror,
                 pvars, evars, rvars, svars, dvars, zvars>>

\* variant: every failure of the first call is followed by the fallback
QueryFailsAlwaysFallback(e) ==
  /\ qphase = "querying"
  /\ engine_calls' =
       Append(engine_calls,
              FallbackParam(adjusted_mode, query.response_type, adjusted_top_k))
  /\ qphase' = "fallback"
  /\ UNCHANGED <<qerror, query, adjusted_mode, adjusted_top_k, pvars, evars,
                 rvars, svars, dvars, zvars>>

\* the first call raises: one fallback call for a context size error,
\* the error re-raised (status 500) for any other
QueryFails(e) ==
  /\ qphase = "querying"
  /\ IF e = "context"
     THEN /\ engine_calls' =
               Append(engine_calls,
                      FallbackParam(adjusted_mode, query.response_type,
                                    adjusted_top_k))
          /\ qphase' = "fallback"
          /\ UNCHANGED qerror
     ELSE /\ qphase' = "failed"
          /\ qerror' = e
          /\ UNCHANGED engine_calls
  /\ UNCHANGED <<query, adjusted_mode, adjusted_top_k, pvars, evars, rvars, svars, dvars, zvars>>

\* the fallback call returns: adjusted_mode = mode of fallback_param
FallbackAnswered ==
  /\ qphase = "fallback"
  /\ adjusted_mode' = LastCall.mode
  /\ qphase' = "answered"
  /\ UNCHANGED <<query, adjusted_top_k, engine_calls, qerror,
                 pvars, evars, rvars, svars, dvars, zvars>>

\* the fallback call raises: no handler around it but the outer one
FallbackFails(e) ==
  /\ qphase = "fallback"
  /\ qphase' = "failed"
  /\ qerror' = e
  /\ UNCHANGED <<query, adjusted_mode, adjusted_top_k, engine_calls,
                 pvars, evars, rvars, svars, dvars, zvars>>

(* ------------------------ generate_notebook_summary --------------------- *)
(* A document is [id, uploaded_at, status]; identifiers and upload times    *)
(* are numbers, the string "{id}:{uploaded_at}" is the pair of the two.     *)
Statuses == {"processing", "completed", "failed"}
Answers == {"summary one", "summary two"}
Stored(v) == [value |-> v]

\* notebook_documents: the completed documents, in dictionary order
CompletedDocs(docs) == SelectSeq(docs, LAMBDA d : d.status = "completed")

\* f"{doc['id']}:{doc['uploaded_at'].isoformat()}"
DocKey(d) == <<d.id, d.uploaded_at>>

\* order of the strings: identifiers have one length, so the identifier
\* decides, and the time behind the colon only between equal identifiers
KeyLess(a, b) == a[1] < b[1] \/ (a[1] = b[1] /\ a[2] < b[2])

RECURSIVE Insert(_, _)
Insert(k, s) ==
  IF s = <<>> THEN <<k>>
  ELSE IF KeyLess(k, Head(s)) THEN <<k>> \o s
  ELSE <<Head(s)>> \o Insert(k, Tail(s))

\* sorted([...])
RECURSIVE Sorted(_)
Sorted(s) == IF s = <<>> THEN <<>> ELSE Insert(Head(s), Sorted(Tail(s)))

\* variant: the strings are joined in dictionary order
FingerprintUnsorted(docs) == [i \in 1..Len(docs) |-> DocKey(docs[i])]

\* "|".join(sorted([...])): neither an identifier nor a time contains "|",
\* so the joined string is the list of its parts
Fingerprint(docs) == Sorted([i \in 1..Len(docs) |-> DocKey(docs[i])])

\* variant: a stored summary is returned whatever its fingerprint
CacheValidAnyFingerprint(docs) ==
  summary_cache # NoRec /\ docs_fingerprint # NoRec

\* cached_summary and cached_fingerprint and
\* cached_fingerprint == current_docs_fingerprint
CacheValid(docs) ==
  /\ summary_cache # NoRec
  /\ docs_fingerprint # NoRec
  /\ docs_fingerprint = Stored(Fingerprint(docs))

SummaryResponse(code, answer, mode, context_used, source) ==
  [code |-> code, answer |-> answer, mode |-> mode,
   context_used |-> context_used, source |-> source]

\* summary_cache and docs_fingerprint are deleted from the notebook
ClearSummaryCache ==
  summary_cache' = NoRec /\ docs_fingerprint' = NoRec /\ cached_over' = NoRec

\* a completion or deletion: during the running summary request, or after
\* the latest one was answered
NoteChange ==
  changed' = IF current_docs_fingerprint # NoRec THEN
               (IF changed = "after" THEN "after" ELSE "during")
             ELSE "after"

Remove(s, i) == [j \in 1..(Len(s) - 1) |-> IF j < i THEN s[j] ELSE s[j + 1]]

\* upload_notebook_documents: a new record, status processing
DocUploaded ==
  /\ next_upload <= MaxDocs
  /\ notebook_docs' = Append(notebook_docs,
                            [id |-> next_upload, uploaded_at |-> next_upload,
                             status |-> "processing"])
  /\ next_upload' = next_upload + 1
  /\ UNCHANGED <<engine_read, cached_over, summary_cache, docs_fingerprint, current_docs_fingerprint,
                 summary_queries, started, last_summary, changed,
                 pvars, evars, rvars, qvars, dvars, zvars>>

\* process_notebook_document after rag.ainsert returned: status completed,
\* "Clear summary cache since a new document has been processed"
DocCompleted(i) ==
  /\ i \in 1..Len(notebook_docs)
  /\ notebook_docs[i].status = "processing"
  /\ notebook_docs' = [notebook_docs EXCEPT ![i].status = "completed"]
  /\ ClearSummaryCache
  /\ NoteChange
  /\ UNCHANGED <<engine_read, next_upload, current_docs_fingerprint, summary_queries,
                 started, last_summary, pvars, evars, rvars, qvars, dvars, zvars>>

\* process_notebook_document, except branch: status failed
DocFailed(i) ==
  /\ i \in 1..Len(notebook_docs)
  /\ notebook_docs[i].status = "processing"
  /\ notebook_docs' = [notebook_docs EXCEPT ![i].status = "failed"]
  /\ UNCHANGED <<engine_read, cached_over, next_upload, summary_cache, docs_fingerprint,
                 current_docs_fingerprint, summary_queries, started,
                 last_summary, changed, pvars, evars, rvars, qvars, dvars, zvars>>

\* variant: the deletion leaves the stored summary in place
DocDeletedKeepsCache(i) ==
  /\ i \in 1..Len(notebook_docs)
  /\ notebook_docs' = Remove(notebook_docs, i)
  /\ NoteChange
  /\ UNCHANGED <<engine_read, cached_over, next_upload, summary_cache, docs_fingerprint,
                 current_docs_fingerprint, summary_queries, started,
                 last_summary, pvars, evars, rvars, qvars, dvars, zvars>>

\* delete_notebook_document after the engine calls returned: the record is
\* removed, "Clear summary cache since documents have changed"
DocDeleted(i) ==
  /\ i \in 1..Len(notebook_docs)
  /\ notebook_docs' = Remove(notebook_docs, i)
  /\ ClearSummaryCache
  /\ NoteChange
  /\ UNCHANGED <<engine_read, next_upload, current_docs_fingerprint, summary_queries,
                 started, last_summary, pvars, evars, rvars, qvars, dvars, zvars>>

\* if not notebook_documents: the fixed answer, nothing stored
SummaryNotReady ==
  /\ current_docs_fingerprint = NoRec
  /\ started < MaxSummaries
  /\ CompletedDocs(notebook_docs) = <<>>
  /\ started' = started + 1
  /\ last_summary' = SummaryResponse(200, "not ready", "hybrid", FALSE, "fixed")
  /\ changed' = "none"
  /\ UNCHANGED <<engine_read, cached_over, notebook_docs, next_upload, summary_cache, docs_fingerprint,
                 current_docs_fingerprint, summary_queries,
                 pvars, evars, rvars, qvars, dvars, zvars>>

\* "Returning cached summary": the stored answer, mode and context flag
SummaryCached ==
  /\ current_docs_fingerprint = NoRec
  /\ started < MaxSummaries
  /\ CompletedDocs(notebook_docs) # <<>>
  /\ CacheValid(CompletedDocs(notebook_docs))
  /\ started' = started + 1
  /\ last_summary' = SummaryResponse(200, summary_cache.answer, summary_cache.mode,
                                     summary_cache.context_used, "cache")
  /\ changed' = "none"
  /\ UNCHANGED <<engine_read, cached_over, notebook_docs, next_upload, summary_cache, docs_fingerprint,
                 current_docs_fingerprint, summary_queries,
                 pvars, evars, rvars, qvars, dvars, zvars>>

\* "Generating new summary": up to await rag.aquery(summary_question, ...)
SummaryQueryBegin ==
  /\ current_docs_fingerprint = NoRec
  /\ started < MaxSummaries
  /\ CompletedDocs(notebook_docs) # <<>>
  /\ ~CacheValid(CompletedDocs(notebook_docs))
  /\ started' = started + 1
  /\ current_docs_fingerprint' = Stored(Fingerprint(CompletedDocs(notebook_docs)))
  /\ summary_queries' = summary_queries + 1
  /\ changed' = "none"
  /\ UNCHANGED <<engine_read, cached_over, notebook_docs, next_upload, summary_cache, docs_fingerprint,
                 last_summary, pvars, evars, rvars, qvars, dvars, zvars>>

\* the identifiers of the documents the engine answers from: it holds
\* the documents whose insertion has returned
EngineDocs(docs) ==
  {CompletedDocs(docs)[j].id : j \in 1..Len(CompletedDocs(docs))}

\* inside rag.aquery: the engine retrieves from the documents it holds at
\* that moment
SummaryEngineReads ==
  /\ current_docs_fingerprint # NoRec
  /\ engine_read = NoRec
  /\ engine_read' = Stored(EngineDocs(notebook_docs))
  /\ UNCHANGED <<notebook_docs, next_upload, summary_cache, docs_fingerprint,
                 current_docs_fingerprint, summary_queries, started,
                 last_summary, changed, cached_over,
                 pvars, evars, rvars, qvars, dvars, zvars>>

\* the engine answered: "Cache the new summary" under the fingerprint
\* computed before the call
SummaryQueryEnd(answer) ==
  /\ current_docs_fingerprint # NoRec
  /\ engine_read # NoRec
  /\ cached_over' = engine_read
  /\ engine_read' = NoRec
  /\ summary_cache' = [answer |-> answer, mode |-> "hybrid", context_used |-> TRUE]
  /\ docs_fingerprint' = current_docs_fingerprint
  /\ current_docs_fingerprint' = NoRec
  /\ last_summary' = SummaryResponse(200, answer, "hybrid", TRUE, "engine")
  /\ UNCHANGED <<notebook_docs, next_upload, summary_queries, started, changed,
                 pvars, evars, rvars, qvars, dvars, zvars>>

\* the engine raised: status 500, nothing stored
SummaryQueryFails ==
  /\ current_docs_fingerprint # NoRec
  /\ engine_read' = NoRec
  /\ current_docs_fingerprint' = NoRec
  /\ last_summary' = SummaryResponse(500, "error", "none", FALSE, "error")
  /\ UNCHANGED <<cached_over, notebook_docs, next_upload, summary_cache, docs_fingerprint,
                 summary_queries, started, changed, pvars, evars, rvars, qvars, dvars, zvars>>

\* the fingerprint expression alone, applied to a list of documents
ComputeFingerprint ==
  /\ current_docs_fingerprint = NoRec
  /\ CompletedDocs(notebook_docs) # <<>>
  /\ current_docs_fingerprint' = Stored(Fingerprint(CompletedDocs(notebook_docs)))
  /\ UNCHANGED <<engine_read, cached_over, notebook_docs, next_upload, summary_cache, docs_fingerprint,
                 summary_queries, started, last_summary, changed,
                 pvars, evars, rvars, qvars, dvars, zvars>>

(* ------------- one document: ingestion task against deletion ----------- *)
(* The engine entries of one document.  rag.ainsert(ids=[prefixed_doc_id])  *)
(* adds the entry when it returns; rag.adelete_by_doc_id(id) removes the    *)
(* entry of that id if there is one.                                        *)
\* f"doc_{notebook_id}_{document_id}": the id used when the record has no
\* lightrag_id; no run of the task inserts under it
DefaultLightragId == 0

\* document_data.get("lightrag_id", f"doc_{notebook_id}_{document_id}")
LightragIdOf(doc) == doc.lightrag_id

\* process_notebook_document up to the call of rag.ainsert; rag is FALSE
\* when get_lightrag_instance raised
IngestBegin(rag) ==
  /\ job_pc = "scheduled"
  /\ IF rag /\ document # NoRec
     THEN /\ document' = [document EXCEPT !.status = "processing"]
          /\ job_pc' = "inserting"
     ELSE \* except branch: a record still there becomes failed
          /\ document' = IF document # NoRec
                         THEN [document EXCEPT !.status = "failed"]
                         ELSE document
          /\ job_pc' = "off"
  /\ UNCHANGED <<prefixed_doc_id, engine_docs, del_pc, lightrag_id, deletes,
                 del_response, pvars, evars, rvars, qvars, svars, zvars>>

\* rag.ainsert returned (ok), raised or timed out
IngestInserted(ok) ==
  /\ job_pc = "inserting"
  /\ IF ok
     THEN /\ engine_docs' = engine_docs \cup {prefixed_doc_id}
          /\ job_pc' = "clearing"
          /\ UNCHANGED document
     ELSE /\ document' = IF document # NoRec
                         THEN [document EXCEPT !.status = "failed"]
                         ELSE document
          /\ job_pc' = "off"
          /\ UNCHANGED engine_docs
  /\ UNCHANGED <<prefixed_doc_id, del_pc, lightrag_id, deletes, del_response,
                 pvars, evars, rvars, qvars, svars, zvars>>

\* rag.aclear_cache returned or failed ("continuing anyway"): the record,
\* if it is still there, becomes completed and stores the engine id
IngestCompleted ==
  /\ job_pc = "clearing"
  /\ document' = IF document # NoRec
                 THEN [status |-> "completed", lightrag_id |-> prefixed_doc_id]
                 ELSE document
  /\ job_pc' = "off"
  /\ UNCHANGED <<prefixed_doc_id, engine_docs, del_pc, lightrag_id, deletes,
                 del_response, pvars, evars, rvars, qvars, svars, zvars>>

\* retry_failed_document on the failed record: a new run of the task
RetryFailed ==
  /\ document # NoRec
  /\ document.status = "failed"
  /\ job_pc = "off"
  /\ prefixed_doc_id < MaxRuns
  /\ document' = [document EXCEPT !.status = "processing"]
  /\ job_pc' = "scheduled"
  /\ prefixed_doc_id' = prefixed_doc_id + 1
  /\ UNCHANGED <<engine_docs, del_pc, lightrag_id, deletes, del_response,
                 pvars, evars, rvars, qvars, svars, zvars>>

\* delete_notebook_document: the checks (404 when the record is gone), then
\* await get_lightrag_instance
DeleteBegin ==
  /\ del_pc = "off"
  /\ deletes < MaxDeletes
  /\ document # NoRec
  /\ deletes' = deletes + 1
  /\ del_pc' = "instance"
  /\ UNCHANGED <<document, job_pc, prefixed_doc_id, engine_docs, lightrag_id,
                 del_response, pvars, evars, rvars, qvars, svars, zvars>>

\* get_lightrag_instance returned or raised; the record is read and the
\* engine id chosen, then await rag.adelete_by_doc_id(lightrag_id)
DeleteInstance(ok) ==
  /\ del_pc = "instance"
  /\ IF ok /\ document # NoRec
     THEN /\ lightrag_id' = LightragIdOf(document)
          /\ del_pc' = "deleting"
          /\ UNCHANGED del_response
     ELSE /\ del_pc' = "off"
          /\ del_response' = 500
          /\ UNCHANGED lightrag_id
  /\ UNCHANGED <<document, job_pc, prefixed_doc_id, engine_docs, deletes,
                 pvars, evars, rvars, qvars, svars, zvars>>

\* rag.adelete_by_doc_id returned or raised; then await rag.aclear_cache
DeleteEngine(ok) ==
  /\ del_pc = "deleting"
  /\ IF ok
     THEN /\ engine_docs' = engine_docs \ {lightrag_id}
          /\ del_pc' = "clearing"
          /\ UNCHANGED del_response
     ELSE /\ del_pc' = "off"
          /\ del_response' = 500
          /\ UNCHANGED engine_docs
  /\ UNCHANGED <<document, job_pc, prefixed_doc_id, lightrag_id, deletes,
                 pvars, evars, rvars, qvars, svars, zvars>>

\* rag.aclear_cache returned or raised; the record is removed and the
\* request answered "Document deleted successfully"
DeleteCleared(ok) ==
  /\ del_pc = "clearing"
  /\ del_pc' = "off"
  /\ IF ok /\ document # NoRec
     THEN document' = NoRec /\ del_response' = 200
     ELSE del_response' = 500 /\ UNCHANGED document
  /\ UNCHANGED <<job_pc, prefixed_doc_id, engine_docs, lightrag_id, deletes,
                 pvars, evars, rvars, qvars, svars, zvars>>

(* ------------ auto_detect_provider_type, create_lightrag_instance ------- *)
(* A provider configuration is [type, baseUrl, apiKey]; "absent" stands    *)
(* for a key the dictionary does not have.                                  *)
DeclaredTypes == {"absent", "ollama", "openai", "openai_compatible", "anthropic"}
BaseUrls ==
  {"absent", "https://api.openai.com/v1", "https://api.openai.com",
   "https://api.openai.com/v1/", "http://localhost:8091/v1",
   "http://localhost:11434/v1", "https://llm.example.com/v1"}
ApiKeys == {"absent", "", "your-api-key", " your-api-key ", "sk-secret"}
ProviderConfigs == [type : DeclaredTypes, baseUrl : BaseUrls, apiKey : ApiKeys]

\* provider_config.get('type', 'openai')
TypeOf(config) == IF config.type = "absent" THEN "openai" ELSE config.type

\* base_url in ['https://api.openai.com/v1', 'https://api.openai.com']
IsPublicOrigin(base_url) ==
  base_url \in {"https://api.openai.com/v1", "https://api.openai.com"}

\* ':8091' in base_url or base_url.endswith(':8091')
IsClaraCore(base_url) == base_url \in {"http://localhost:8091/v1"}

\* variant: the declared type is kept when there is one
KeepDeclaredType(config) ==
  IF config.type # "absent" THEN config
  ELSE [config EXCEPT !.type = "openai"]

\* auto_detect_provider_type: the value returned (a copy of the argument)
auto_detect_provider_type(config) ==
  IF TypeOf(config) # "ollama"
  THEN IF IsPublicOrigin(config.baseUrl)
       THEN [config EXCEPT !.type = "openai"]
       ELSE [config EXCEPT !.type = "openai_compatible"]
  ELSE config

\* not api_key or api_key.strip() == 'your-api-key'
Unusable(api_key) ==
  api_key \in {"absent", "", "your-api-key", " your-api-key "}

\* variant: the local gateway needs a credential too
MissingKeyAnywhere(config) ==
  TypeOf(config) # "ollama" /\ Unusable(config.apiKey)

\* create_lightrag_instance, "Validate API keys for non-Ollama providers
\* (except Clara Core on port 8091)": the condition of the ValueError
MissingKey(config) ==
  /\ TypeOf(config) # "ollama"
  /\ ~IsClaraCore(config.baseUrl)
  /\ Unusable(config.apiKey)

Callers == {"create_notebook", "query_notebook"}

\* what the caller makes of the HTTPException of create_lightrag_instance:
\* create_notebook re-raises it, query_notebook catches Exception and
\* answers 500
StatusFor(c, code) == IF c = "create_notebook" THEN code ELSE 500

\* the handler up to the validation in create_lightrag_instance, which no
\* await precedes: create_notebook resolves both configurations first,
\* query_notebook passes the override and the notebook's stored one
ValidateProviders ==
  /\ cfg_pc = "received"
  /\ LET llm == IF caller = "create_notebook"
                THEN auto_detect_provider_type(llm_provider)
                ELSE llm_provider
         emb == IF caller = "create_notebook"
                THEN auto_detect_provider_type(embedding_provider)
                ELSE embedding_provider
     IN /\ corrected_llm_provider' = llm
        /\ corrected_embedding_provider' = emb
        /\ IF MissingKey(llm) \/ MissingKey(emb)
           THEN cfg_pc' = "failed" /\ http_status' = StatusFor(caller, 400)
           ELSE cfg_pc' = "initializing" /\ UNCHANGED http_status
  /\ UNCHANGED <<caller, llm_provider, embedding_provider, provider_calls,
                 not_cvars>>

\* the instance is built and its storages initialized (ok), or building
\* it raised: HTTPException 500 of create_lightrag_instance
InstanceCreated(ok) ==
  /\ cfg_pc = "initializing"
  /\ provider_calls' = provider_calls + 1
  /\ IF ok
     THEN cfg_pc' = "created" /\ UNCHANGED http_status
     ELSE cfg_pc' = "failed" /\ http_status' = StatusFor(caller, 500)
  /\ UNCHANGED <<caller, llm_provider, embedding_provider,
                 corrected_llm_provider, corrected_embedding_provider,
                 not_cvars>>

(* ---------------- save_*_db after the mutating operations --------------- *)
(* One notebook, its documents (a status each) and its chat history in     *)
(* memory and in the three metadata files.  A save writes the whole        *)
(* collection as it is in memory at that moment.                           *)
ChatIds == 1..MaxChats

\* save_notebooks_db(); save_documents_db(); save_chat_history_db()
SaveNotebooks == notebooks_file' = mem_notebook'
SaveDocuments == documents_file' = mem_documents'
SaveChatHistory == chat_history_file' = chat_history_db'

\* create_notebook up to await create_lightrag_instance: the record is in
\* the dictionary, nothing is saved yet
PCreateBegin ==
  /\ nb_pc = "none"
  /\ mem_notebook' = [document_count |-> 0, summary_cache |-> FALSE]
  /\ nb_pc' = "creating"
  /\ UNCHANGED <<mem_documents, chat_history_db, notebooks_file, documents_file,
                 chat_history_file, upload_pc, next_document, bg_tasks, chats,
                 not_fvars>>

\* variant: the record of a creation that failed stays in the dictionary
PCreateFailsKeepsRecord ==
  /\ nb_pc \in {"none", "deleted"}
  /\ nb_pc' = "refused"
  /\ mem_notebook' = [document_count |-> 0, summary_cache |-> FALSE]
  /\ UNCHANGED <<mem_documents, chat_history_db, notebooks_file, documents_file,
                 chat_history_file, upload_pc, next_document, bg_tasks, chats,
                 not_fvars>>

\* create_notebook, asked while the collection is empty, when
\* create_lightrag_instance raises, which it does before its first await:
\* the record is stored, deleted again ("Clean up if LightRAG creation
\* fails") and the exception re-raised; nothing is saved
PCreateFails ==
  /\ nb_pc \in {"none", "deleted"}
  /\ nb_pc' = "refused"
  /\ mem_notebook' = NoRec
  /\ UNCHANGED <<mem_documents, chat_history_db, notebooks_file, documents_file,
                 chat_history_file, upload_pc, next_document, bg_tasks, chats,
                 not_fvars>>

\* the instance was created: save_notebooks_db
PCreateEnd ==
  /\ nb_pc = "creating"
  /\ nb_pc' = "open"
  /\ UNCHANGED mem_notebook
  /\ SaveNotebooks
  /\ UNCHANGED <<mem_documents, chat_history_db, documents_file,
                 chat_history_file, upload_pc, next_document, bg_tasks, chats,
                 not_fvars>>

\* delete_notebook: documents and notebook removed, both files saved; the
\* chat history is not touched
PDeleteNotebook ==
  /\ nb_pc = "open"
  /\ nb_pc' = "deleted"
  /\ mem_notebook' = NoRec
  /\ mem_documents' = [d \in DocIds |-> "absent"]
  /\ SaveNotebooks /\ SaveDocuments
  /\ UNCHANGED <<chat_history_db, chat_history_file, upload_pc, next_document,
                 bg_tasks, chats, not_fvars>>

\* upload_notebook_documents up to the first await file.read()
PUploadBegin ==
  /\ nb_pc = "open"
  /\ upload_pc = "off"
  /\ next_document <= MaxDocs
  /\ upload_pc' = "reading"
  /\ UNCHANGED <<mem_notebook, mem_documents, chat_history_db, notebooks_file,
                 documents_file, chat_history_file, nb_pc, next_document,
                 bg_tasks, chats, not_fvars>>

UploadKinds == {"ok", "skip", "error"}

\* one file was read and its text extracted: a document record and the
\* count ("ok"), continue ("skip"), or HTTPException 500 ("error"); after
\* the last file "Save changes to disk after all uploads" and the tasks of
\* the request are started
PUploadFile(kind, last) ==
  /\ upload_pc = "reading"
  /\ (kind = "ok") => (next_document <= MaxDocs)
  /\ LET added == IF kind = "ok"
                  THEN [bg_tasks EXCEPT ![next_document] = "added"]
                  ELSE bg_tasks
         \* KeyError on lightrag_notebooks_db[notebook_id]["document_count"]
         gone == kind = "ok" /\ mem_notebook = NoRec
     IN
     /\ mem_documents' =
          IF kind = "ok"
          THEN [mem_documents EXCEPT ![next_document] = "processing"]
          ELSE mem_documents
     /\ next_document' = IF kind = "ok" THEN next_document + 1 ELSE next_document
     /\ mem_notebook' =
          IF kind = "ok" /\ ~gone
          THEN [mem_notebook EXCEPT !.document_count = @ + 1]
          ELSE mem_notebook
     /\ IF kind = "error" \/ gone
        THEN \* HTTPException 500: no save, the tasks added are never run
             /\ upload_pc' = "off"
             /\ bg_tasks' = [d \in DocIds |->
                            IF added[d] = "added" THEN "dropped" ELSE added[d]]
             /\ UNCHANGED <<notebooks_file, documents_file>>
        ELSE IF last
        THEN /\ upload_pc' = "off"
             /\ SaveDocuments /\ SaveNotebooks
             /\ bg_tasks' = [d \in DocIds |->
                            IF added[d] = "added" THEN "scheduled" ELSE added[d]]
        ELSE /\ upload_pc' = "reading"
             /\ bg_tasks' = added
             /\ UNCHANGED <<notebooks_file, documents_file>>
  /\ UNCHANGED <<chat_history_db, chat_history_file, nb_pc, chats, not_fvars>>

\* process_notebook_document up to rag.ainsert: the status is written and
\* the documents saved; rag is FALSE when get_lightrag_instance raised
\* (also when the notebook is gone)
PJobBegin(d, rag) ==
  /\ bg_tasks[d] = "scheduled"
  /\ IF rag /\ mem_notebook # NoRec /\ mem_documents[d] # "absent"
     THEN /\ mem_documents' = [mem_documents EXCEPT ![d] = "processing"]
          /\ SaveDocuments
          /\ bg_tasks' = [bg_tasks EXCEPT ![d] = "inserting"]
     ELSE \* except branch: a record still there becomes failed and is saved
          /\ bg_tasks' = [bg_tasks EXCEPT ![d] = "off"]
          /\ IF mem_documents[d] # "absent"
             THEN /\ mem_documents' = [mem_documents EXCEPT ![d] = "failed"]
                  /\ SaveDocuments
             ELSE UNCHANGED <<mem_documents, documents_file>>
  /\ UNCHANGED <<mem_notebook, chat_history_db, notebooks_file,
                 chat_history_file, nb_pc, upload_pc, next_document, chats,
                 not_fvars>>

\* rag.ainsert returned: completed, summary cache cleared, both files
\* saved; or it raised: failed, documents saved
PJobEnd(d, ok) ==
  /\ bg_tasks[d] = "inserting"
  /\ bg_tasks' = [bg_tasks EXCEPT ![d] = "off"]
  /\ IF ok
     THEN /\ mem_documents' =
               IF mem_documents[d] # "absent"
               THEN [mem_documents EXCEPT ![d] = "completed"]
               ELSE mem_documents
          /\ mem_notebook' =
               IF mem_notebook # NoRec
               THEN [mem_notebook EXCEPT !.summary_cache = FALSE]
               ELSE mem_notebook
          /\ SaveDocuments /\ SaveNotebooks
     ELSE /\ UNCHANGED <<mem_notebook, notebooks_file>>
          /\ IF mem_documents[d] # "absent"
             THEN /\ mem_documents' = [mem_documents EXCEPT ![d] = "failed"]
                  /\ SaveDocuments
             ELSE UNCHANGED <<mem_documents, documents_file>>
  /\ UNCHANGED <<chat_history_db, chat_history_file, nb_pc, upload_pc,
                 next_document, chats, not_fvars>>

\* retry_failed_document: status processing, documents saved, task added
PRetry(d) ==
  /\ nb_pc = "open"
  /\ mem_documents[d] = "failed"
  /\ bg_tasks[d] = "off"
  /\ mem_documents' = [mem_documents EXCEPT ![d] = "processing"]
  /\ SaveDocuments
  /\ bg_tasks' = [bg_tasks EXCEPT ![d] = "scheduled"]
  /\ UNCHANGED <<mem_notebook, chat_history_db, notebooks_file,
                 chat_history_file, nb_pc, upload_pc, next_document, chats,
                 not_fvars>>

\* delete_notebook_document after its engine calls: they returned (record
\* removed, count decremented, summary cache cleared, both files saved)
\* or one raised (500, nothing changed)
PDeleteDocument(d, ok) ==
  /\ nb_pc = "open"
  /\ mem_documents[d] # "absent"
  /\ IF ok
     THEN /\ mem_documents' = [mem_documents EXCEPT ![d] = "absent"]
          /\ mem_notebook' = [mem_notebook EXCEPT !.document_count = @ - 1,
                                                  !.summary_cache = FALSE]
          /\ SaveDocuments /\ SaveNotebooks
     ELSE UNCHANGED <<mem_documents, mem_notebook, documents_file, notebooks_file>>
  /\ UNCHANGED <<chat_history_db, chat_history_file, nb_pc, upload_pc,
                 next_document, bg_tasks, chats, not_fvars>>

\* generate_notebook_summary after rag.aquery: the summary is cached and
\* the notebooks saved, or the query raised (500)
PSummary(ok) ==
  /\ nb_pc = "open"
  /\ \E d \in DocIds : mem_documents[d] = "completed"
  /\ ~mem_notebook.summary_cache
  /\ IF ok
     THEN /\ mem_notebook' = [mem_notebook EXCEPT !.summary_cache = TRUE]
          /\ SaveNotebooks
     ELSE UNCHANGED <<mem_notebook, notebooks_file>>
  /\ UNCHANGED <<mem_documents, chat_history_db, documents_file,
                 chat_history_file, nb_pc, upload_pc, next_document, bg_tasks,
                 chats, not_fvars>>

Message(role, c) == [role |-> role, chat |-> c]
\* the notebook's entry of chat_history_db: present is FALSE without the key
NoHistory == [present |-> FALSE, messages |-> <<>>]
History(messages) == [present |-> TRUE, messages |-> messages]

\* chat_with_notebook up to await get_lightrag_instance: the list is
\* created if the key is missing and the user message appended
ChatBegin(c) ==
  /\ nb_pc = "open"
  /\ chats[c] = "off"
  /\ \A b \in ChatIds : (b < c) => (chats[b] # "off")
  /\ chat_history_db' =
       History(Append(chat_history_db.messages, Message("user", c)))
  /\ chats' = [chats EXCEPT ![c] = "instance"]
  /\ UNCHANGED <<mem_notebook, mem_documents, notebooks_file, documents_file,
                 chat_history_file, nb_pc, upload_pc, next_document, bg_tasks,
                 not_fvars>>

\* get_lightrag_instance returned (rag) or raised; with use_chat_history
\* the list is read (KeyError when the history was cleared meanwhile);
\* then await rag.aquery
ChatInstance(c, rag, use_chat_history) ==
  /\ chats[c] = "instance"
  /\ chats' = [chats EXCEPT ![c] =
                 IF rag /\ ~(use_chat_history /\ chat_history_db = NoHistory)
                 THEN "query" ELSE "failed"]
  /\ UNCHANGED <<mem_notebook, mem_documents, chat_history_db, notebooks_file,
                 documents_file, chat_history_file, nb_pc, upload_pc,
                 next_document, bg_tasks, not_fvars>>

\* variant: the answer is put in front of the history
ChatAnsweredInFront(c, ok) ==
  /\ chats[c] = "query"
  /\ IF ok /\ chat_history_db # NoHistory
     THEN /\ chat_history_db' =
               History(<<Message("assistant", c)>> \o chat_history_db.messages)
          /\ SaveChatHistory
          /\ chats' = [chats EXCEPT ![c] = "answered"]
     ELSE /\ chats' = [chats EXCEPT ![c] = "failed"]
          /\ UNCHANGED <<chat_history_db, chat_history_file>>
  /\ UNCHANGED <<mem_notebook, mem_documents, notebooks_file, documents_file,
                 nb_pc, upload_pc, next_document, bg_tasks, not_fvars>>

\* rag.aquery returned: the assistant message is appended (KeyError when
\* the history was cleared meanwhile) and the history saved; or it raised
ChatAnswered(c, ok) ==
  /\ chats[c] = "query"
  /\ IF ok /\ chat_history_db # NoHistory
     THEN /\ chat_history_db' =
               History(Append(chat_history_db.messages, Message("assistant", c)))
          /\ SaveChatHistory
          /\ chats' = [chats EXCEPT ![c] = "answered"]
     ELSE /\ chats' = [chats EXCEPT ![c] = "failed"]
          /\ UNCHANGED <<chat_history_db, chat_history_file>>
  /\ UNCHANGED <<mem_notebook, mem_documents, notebooks_file, documents_file,
                 nb_pc, upload_pc, next_document, bg_tasks, not_fvars>>

\* clear_chat_history: the key is deleted and the history saved
ClearChatHistory ==
  /\ nb_pc = "open"
  /\ chat_history_db # NoHistory
  /\ chat_history_db' = NoHistory
  /\ SaveChatHistory
  /\ UNCHANGED <<mem_notebook, mem_documents, notebooks_file, documents_file,
                 nb_pc, upload_pc, next_document, bg_tasks, chats, not_fvars>>

(* ------------------- load_*_db at module load --------------------------- *)
(* The three loads in the order of the module.  What is at the path of a   *)
(* metadata file: nothing, a file that cannot be opened, text that is not  *)
(* JSON, JSON that is not an object, an object with an entry of the wrong  *)
(* shape, entries with a date that is not ISO, or what a save wrote.       *)
Collections == {"notebooks", "documents", "chat_history"}
LoadOrder == <<"notebooks", "documents", "chat_history">>
FileStates == {"missing", "unreadable", "not_json", "not_object", "bad_entry",
               "bad_date", "saved"}

\* the statements in the try of load_*_db raise: open (OSError), json.load
\* (JSONDecodeError), data.items() or the loop over an entry
\* (AttributeError, TypeError); datetime.fromisoformat (ValueError) has a
\* try of its own in load_documents_db and load_chat_history_db only
LoadRaises(k, file) ==
  \/ file \in {"unreadable", "not_json", "not_object", "bad_entry"}
  \/ file = "bad_date" /\ k = "notebooks"

\* variant: the load has no handler, the exception leaves the module
LoadUnguarded(k) ==
  /\ startup' = "failed"
  /\ UNCHANGED loaded

\* except Exception: the error is logged and the dictionary set to {}
LoadGuarded(k) ==
  /\ loaded' = [loaded EXCEPT ![k] = "empty"]
  /\ UNCHANGED startup

\* one load_*_db(): the dictionary is assigned only after the whole file
\* was read and converted
LoadDb(k) ==
  /\ startup = "loading"
  /\ load_pc <= 3
  /\ LoadOrder[load_pc] = k
  /\ load_pc' = load_pc + 1
  /\ IF metadata_files[k] = "missing"
     THEN UNCHANGED <<loaded, startup>>
     ELSE IF LoadRaises(k, metadata_files[k])
     THEN LoadGuarded(k)
     ELSE /\ loaded' = [loaded EXCEPT ![k] = "data"]
          /\ UNCHANGED startup
  /\ UNCHANGED <<metadata_files, not_lvars>>

load_notebooks_db == LoadDb("notebooks")
load_documents_db == LoadDb("documents")
load_chat_history_db == LoadDb("chat_history")

\* the module continues after the three loads
LoadsDone ==
  /\ startup = "loading"
  /\ load_pc = 4
  /\ startup' = "started"
  /\ UNCHANGED <<metadata_files, loaded, load_pc, not_lvars>>

(* ------------------- query_notebook: the citations ---------------------- *)
QueriedNotebook == 1
MaxCitations == 10

\* variant: every document of the notebook is cited, whatever its status
CitationsAnyStatus(docs, notebook_id) ==
  LET notebook_documents ==
        SelectSeq(docs, LAMBDA doc : doc.notebook_id = notebook_id)
      n == Len(notebook_documents)
  IN [assembled |-> TRUE,
      none |-> n = 0,
      ids |-> [j \in 1..(IF n < MaxCitations THEN n ELSE MaxCitations) |->
                 notebook_documents[j].id]]

\* the completed documents of the notebook in dictionary order, one
\* citation each, then citations[:10] if citations else None
Citations(docs, notebook_id) ==
  LET notebook_documents ==
        SelectSeq(docs, LAMBDA doc : /\ doc.notebook_id = notebook_id
                                     /\ doc.status = "completed")
      n == Len(notebook_documents)
  IN [assembled |-> TRUE,
      none |-> n = 0,
      ids |-> [j \in 1..(IF n < MaxCitations THEN n ELSE MaxCitations) |->
                 notebook_documents[j].id]]

\* the handler up to await rag.aquery
CitedQueryBegin ==
  /\ cit_pc = "received"
  /\ cit_pc' = "querying"
  /\ UNCHANGED <<cit_documents, citations, status_changes, not_tvars>>

\* an ingestion task or a retry request writes a document's status while
\* the query has not yet assembled its citations
StatusChanged(j, status) ==
  /\ cit_pc \in {"received", "querying"}
  /\ status_changes < MaxChanges
  /\ j \in 1..Len(cit_documents)
  /\ cit_documents[j].status # status
  /\ cit_documents' = [cit_documents EXCEPT ![j].status = status]
  /\ status_changes' = status_changes + 1
  /\ UNCHANGED <<cit_pc, citations, not_tvars>>

\* rag.aquery returned: the citations are assembled and the response sent
CitationsAssembled ==
  /\ cit_pc = "querying"
  /\ cit_pc' = "answered"
  /\ citations' = Citations(cit_documents, QueriedNotebook)
  /\ UNCHANGED <<cit_documents, status_changes, not_tvars>>

(* ------------- upload_notebook_documents: the stagger delay ------------- *)
StaggerSeconds == 3
MaxStagger == 30

\* variant: the delay grows with the position without a limit
DelayUncapped(i) == i * StaggerSeconds

\* delay_seconds = min(i * 3, 30)
DelaySeconds(i) == Min(i * StaggerSeconds, MaxStagger)

\* if not files: HTTPException 400
NoFilesProvided ==
  /\ stagger_pc = "received"
  /\ upload_files = <<>>
  /\ stagger_pc' = "rejected"
  /\ UNCHANGED <<upload_files, file_index, delayed_tasks, running,
                 slept_seconds, processing, not_gvars>>

\* one pass of the loop over enumerate(files): a file without a name or
\* without text is skipped, an exception ends the request with 500 (its
\* tasks are never run), otherwise the task is added with its delay
StaggerFile ==
  /\ stagger_pc \in {"received", "reading"}
  /\ file_index < Len(upload_files)
  /\ LET kind == upload_files[file_index + 1] IN
     /\ stagger_pc' = IF kind = "error" THEN "failed" ELSE "reading"
     /\ delayed_tasks' =
          IF kind = "file"
          THEN Append(delayed_tasks,
                      [position |-> file_index,
                       delay_seconds |-> DelaySeconds(file_index)])
          ELSE delayed_tasks
     /\ slept_seconds' =
          IF kind = "file" THEN Append(slept_seconds, 0) ELSE slept_seconds
  /\ file_index' = file_index + 1
  /\ UNCHANGED <<upload_files, running, processing, not_gvars>>

\* after the loop: the response is sent and the first task may run
StaggerResponded ==
  /\ stagger_pc = "reading"
  /\ file_index = Len(upload_files)
  /\ stagger_pc' = "responded"
  /\ running' = 1
  /\ UNCHANGED <<upload_files, file_index, delayed_tasks, slept_seconds,
                 processing, not_gvars>>

\* process_notebook_document_with_delay: asyncio.sleep(delay_seconds) has
\* elapsed
StaggerSlept ==
  /\ stagger_pc = "responded"
  /\ running \in 1..Len(delayed_tasks)
  /\ delayed_tasks[running].delay_seconds > 0
  /\ slept_seconds[running] = 0
  /\ slept_seconds' =
       [slept_seconds EXCEPT ![running] = delayed_tasks[running].delay_seconds]
  /\ UNCHANGED <<upload_files, file_index, delayed_tasks, stagger_pc, running,
                 processing, not_gvars>>

\* process_notebook_document is called and runs to its end; the tasks of
\* a response run one after the other
StaggerProcessed ==
  /\ stagger_pc = "responded"
  /\ running \in 1..Len(delayed_tasks)
  /\ \/ delayed_tasks[running].delay_seconds <= 0
     \/ slept_seconds[running] > 0
  /\ processing' = processing \cup {running}
  /\ running' = running + 1
  /\ UNCHANGED <<upload_files, file_index, delayed_tasks, stagger_pc,
                 slept_seconds, not_gvars>>

(* ------------------------ get_lightrag_instance ------------------------ *)
(* One notebook and the requests and background tasks that call           *)
(* get_lightrag_instance for it (a query, a summary, a chat, a document    *)
(* deletion, an ingestion task), each once.                                *)
Getters == 1..MaxGetters

\* get_lightrag_instance up to its await: the cached instance is returned
\* at once; without one, 404 when the notebook is unknown; otherwise
\* create_lightrag_instance constructs a LightRAG object (or raises before
\* its first await, ~ok) and awaits the initialization of its storages
GetInstanceBegin(k, ok) ==
  /\ get_pc[k] = "idle"
  /\ IF lightrag_instances # 0
     THEN /\ ok
          /\ returned_rag' = [returned_rag EXCEPT ![k] = lightrag_instances]
          /\ get_pc' = [get_pc EXCEPT ![k] = "returned"]
          /\ UNCHANGED instances_built
     ELSE IF ~cached_notebook \/ ~ok
     THEN /\ get_pc' = [get_pc EXCEPT ![k] = "raised"]
          /\ UNCHANGED <<returned_rag, instances_built>>
     ELSE /\ instances_built' = instances_built + 1
          /\ returned_rag' = [returned_rag EXCEPT ![k] = instances_built + 1]
          /\ get_pc' = [get_pc EXCEPT ![k] = "creating"]
  /\ UNCHANGED <<cached_notebook, lightrag_instances, not_ivars>>

\* create_lightrag_instance returned: the instance is stored under the
\* notebook's key, whatever is there, and returned
GetInstanceEnd(k) ==
  /\ get_pc[k] = "creating"
  /\ lightrag_instances' = returned_rag[k]
  /\ get_pc' = [get_pc EXCEPT ![k] = "returned"]
  /\ UNCHANGED <<cached_notebook, returned_rag, instances_built, not_ivars>>

\* delete_notebook: "Remove LightRAG instance", "Remove notebook"
DeleteCachedNotebook ==
  /\ cached_notebook
  /\ cached_notebook' = FALSE
  /\ lightrag_instances' = 0
  /\ UNCHANGED <<get_pc, returned_rag, instances_built, not_ivars>>

(* --------------------------- specification ----------------------------- *)
\* no embedding call and no windowing in progress
EmbedIdle ==
  /\ ephase = "off" /\ provider = "none" /\ texts = <<>> /\ sub = <<>>
  /\ batch_size = 0 /\ pos = 0 /\ all_embeddings = <<>> /\ tpos = 0
  /\ final_embeddings = <<>> /\ outcome = NoOutcome
WindowIdle == wtext = 0 /\ wparams = <<0, 0>> /\ chunks = <<>>
\* no call of the retrying client in progress
ClientIdle ==
  /\ rphase = "off" /\ is_clara_core_embedding = FALSE /\ attempt = 0
  /\ calls = 0 /\ slept = 0 /\ sleeps = <<>> /\ raised = NoError

\* no query in progress
QueryIdle ==
  /\ qphase = "off" /\ query = NoQuery /\ adjusted_mode = "none"
  /\ adjusted_top_k = 0 /\ engine_calls = <<>> /\ qerror = "none"

\* one notebook without documents, no summary stored or requested
SummaryIdle ==
  /\ notebook_docs = <<>> /\ next_upload = 1
  /\ summary_cache = NoRec /\ docs_fingerprint = NoRec
  /\ current_docs_fingerprint = NoRec /\ summary_queries = 0
  /\ started = 0 /\ last_summary = NoRec /\ changed = "none"
  /\ engine_read = NoRec /\ cached_over = NoRec

\* no document under deletion
DeletionIdle ==
  /\ document = NoRec /\ job_pc = "off" /\ prefixed_doc_id = 0
  /\ engine_docs = {} /\ del_pc = "off" /\ lightrag_id = 0
  /\ deletes = 0 /\ del_response = 0

NoConfig == [type |-> "none", baseUrl |-> "none", apiKey |-> "none"]
\* no engine instance being built
ConfigIdle ==
  /\ cfg_pc = "off" /\ caller = "none"
  /\ llm_provider = NoConfig /\ embedding_provider = NoConfig
  /\ corrected_llm_provider = NoConfig
  /\ corrected_embedding_provider = NoConfig
  /\ provider_calls = 0 /\ http_status = 0
\* nothing in memory or in the metadata files, no notebook
PersistIdle ==
  /\ mem_notebook = NoRec
  /\ mem_documents = [d \in DocIds |-> "absent"]
  /\ chat_history_db = NoHistory
  /\ notebooks_file = NoRec
  /\ documents_file = [d \in DocIds |-> "absent"]
  /\ chat_history_file = NoHistory
  /\ nb_pc = "none" /\ upload_pc = "off" /\ next_document = 1
  /\ bg_tasks = [d \in DocIds |-> "none"]
  /\ chats = [c \in ChatIds |-> "off"]
\* the module was loaded without metadata files
LoadIdle ==
  /\ metadata_files = [k \in Collections |-> "missing"]
  /\ loaded = [k \in Collections |-> "empty"]
  /\ load_pc = 4 /\ startup = "started"
NoCitations == [assembled |-> FALSE, none |-> FALSE, ids |-> <<>>]
\* no query whose citations are followed
CitationsIdle ==
  /\ cit_documents = <<>> /\ cit_pc = "off" /\ citations = NoCitations
  /\ status_changes = 0
\* no upload whose tasks are followed
StaggerIdle ==
  /\ upload_files = <<>> /\ file_index = 0 /\ delayed_tasks = <<>>
  /\ stagger_pc = "off" /\ running = 0 /\ slept_seconds = <<>>
  /\ processing = {}
\* one notebook without a cached instance, nobody asking for it
InstancesIdle ==
  /\ cached_notebook = TRUE /\ lightrag_instances = 0
  /\ get_pc = [k \in Getters |-> "off"]
  /\ returned_rag = [k \in Getters |-> 0]
  /\ instances_built = 0
LaterIdle == LoadIdle /\ CitationsIdle /\ StaggerIdle /\ InstancesIdle
OthersIdle == ConfigIdle /\ PersistIdle /\ LaterIdle

\* module load: empty dictionaries (no metadata files yet), no request
PipelineIdle ==
  /\ lightrag_notebooks_db = [n \in NotebookIds |-> NoRec]
  /\ lightrag_documents_db = [d \in DocIds |-> NoRec]
  /\ nextNb = 1
  /\ nextDoc = 1
  /\ reqs = EmptyBag
  /\ queues = EmptyBag
  /\ inserted = {}
  /\ deleted_notebooks = {}

Init == PipelineIdle /\ EmbedIdle /\ WindowIdle /\ ClientIdle /\ QueryIdle /\ SummaryIdle /\ DeletionIdle /\ OthersIdle

Next ==
  \/ CreateNotebookBegin
  \/ CreateNotebookFails
  \/ \E c \in BagToSet(reqs) : CreateNotebookEnd(c)
  \/ \E n \in NotebookIds : DeleteNotebook(n)
  \/ \E n \in NotebookIds, empty \in BOOLEAN : UploadBegin(n, empty)
  \/ \E u \in BagToSet(reqs), kind \in FileKinds, wrote, last \in BOOLEAN :
       UploadFile(u, kind, wrote, last)
  \/ \E n \in NotebookIds, d \in DocIds : RetryDocument(n, d)
  \/ \E q \in BagToSet(queues), rag \in BOOLEAN : JobBegin(q, rag)
  \/ \E q \in BagToSet(queues), ok \in BOOLEAN : JobInserted(q, ok)
  \/ \E n \in NotebookIds, d \in DocIds : DeleteDocumentBegin(n, d)
  \/ \E x \in BagToSet(reqs), fault \in DeleteFaults : DeleteDocumentEnd(x, fault)

Spec == Init /\ [][Next]_vars

(* One call of embedding_func_lambda, for every provider branch, every     *)
(* list of up to MaxTexts texts of the sample lengths, and the lists of    *)
(* short texts one longer than the largest provider batch.                 *)
TextLens == {150, 370, 1000}
ShortLens == {l \in TextLens : ~CanRechunk(<<[src |-> 1, len |-> l]>>)}
TextLists ==
  UNION {[1..n -> TextLens] : n \in 0..MaxTexts}
    \cup {[i \in 1..(OpenAIMaxBatch + 1) |-> l] : l \in ShortLens}

InitEmbed ==
  /\ PipelineIdle /\ WindowIdle /\ ClientIdle /\ QueryIdle /\ SummaryIdle /\ DeletionIdle /\ OthersIdle
  /\ ephase = "lambda"
  /\ provider \in Providers
  /\ texts \in TextLists
  /\ sub = <<>> /\ batch_size = 0 /\ pos = 0 /\ all_embeddings = <<>>
  /\ tpos = 0 /\ final_embeddings = <<>> /\ outcome = NoOutcome

NextEmbed ==
  \/ EmbeddingFuncLambda
  \/ ClaraCoreLambda
  \/ \E r \in Outcomes : DirectCall(r)
  \/ EnterLoop
  \/ BatchOk
  \/ BatchFailed
  \/ BatchRejected
  \/ \E r \in Outcomes : BatchRechunked(r)

SpecEmbed == InitEmbed /\ [][NextEmbed]_vars

(* The windowing expression applied to every text length up to MaxLen      *)
(* with both (window, step) pairs of the source.                           *)
WindowParams == {<<200, 180>>, <<400, 350>>}

InitWindow ==
  /\ PipelineIdle /\ EmbedIdle /\ ClientIdle /\ QueryIdle /\ SummaryIdle /\ DeletionIdle /\ OthersIdle
  /\ wtext \in 1..MaxLen
  /\ wparams \in WindowParams
  /\ chunks = <<>>

NextWindow == ApplyWindowing

SpecWindow == InitWindow /\ [][NextWindow]_vars

(* One call of base_openai_compatible_embed, for both client classes,      *)
(* against a backend that may answer or fail in any way at every attempt.  *)
InitRetry ==
  /\ PipelineIdle /\ EmbedIdle /\ WindowIdle /\ QueryIdle /\ SummaryIdle /\ DeletionIdle /\ OthersIdle
  /\ rphase = "calling"
  /\ is_clara_core_embedding \in BOOLEAN
  /\ attempt = 0 /\ calls = 0 /\ slept = 0 /\ sleeps = <<>>
  /\ raised = NoError

NextRetry ==
  \/ AttemptOk
  \/ \E f \in Failures : AttemptFails(f)
  \/ RetryDelayElapsed

SpecRetry == InitRetry /\ [][NextRetry]_vars

(* One call of query_notebook on an existing notebook, for every mode,     *)
(* response format and top_k up to MaxTopK, both model classes and both    *)
(* question lengths, against an engine that may fail at every call.        *)
InitQuery ==
  /\ PipelineIdle /\ EmbedIdle /\ WindowIdle /\ ClientIdle /\ SummaryIdle /\ DeletionIdle /\ OthersIdle
  /\ qphase = "received"
  /\ query \in [mode : Modes, response_type : ResponseTypes, top_k : 1..MaxTopK,
                 small_model : BOOLEAN, long_question : BOOLEAN]
  /\ adjusted_mode = "none" /\ adjusted_top_k = 0
  /\ engine_calls = <<>> /\ qerror = "none"

NextQuery ==
  \/ QueryBegin
  \/ QueryAnswered
  \/ \E e \in QueryErrors : QueryFails(e)
  \/ FallbackAnswered
  \/ \E e \in QueryErrors : FallbackFails(e)

SpecQuery == InitQuery /\ [][NextQuery]_vars

(* Summary requests for one notebook, one at a time, while its documents   *)
(* are uploaded, processed and deleted; the engine may give any answer.    *)
InitSummary ==
  /\ PipelineIdle /\ EmbedIdle /\ WindowIdle /\ ClientIdle /\ QueryIdle
  /\ SummaryIdle /\ DeletionIdle /\ OthersIdle

NextSummary ==
  \/ DocUploaded
  \/ \E i \in DocIds : DocCompleted(i)
  \/ \E i \in DocIds : DocFailed(i)
  \/ \E i \in DocIds : DocDeleted(i)
  \/ SummaryNotReady
  \/ SummaryCached
  \/ SummaryQueryBegin
  \/ SummaryEngineReads
  \/ \E answer \in Answers : SummaryQueryEnd(answer)
  \/ SummaryQueryFails

SpecSummary == InitSummary /\ [][NextSummary]_vars

(* The fingerprint expression applied to every list of up to MaxDocs       *)
(* documents with distinct identifiers, in every order, with every status  *)
(* and every upload time up to MaxClock.                                   *)
DocRecords == [id : DocIds, uploaded_at : 1..MaxClock, status : Statuses]
DocLists ==
  {s \in UNION {[1..n -> DocRecords] : n \in 0..MaxDocs} :
     \A i, j \in 1..Len(s) : (i # j) => (s[i].id # s[j].id)}

InitFingerprint ==
  /\ PipelineIdle /\ EmbedIdle /\ WindowIdle /\ ClientIdle /\ QueryIdle
  /\ DeletionIdle /\ OthersIdle
  /\ notebook_docs \in DocLists
  /\ next_upload = 1
  /\ summary_cache = NoRec /\ docs_fingerprint = NoRec
  /\ current_docs_fingerprint = NoRec /\ summary_queries = 0
  /\ started = 0 /\ last_summary = NoRec /\ changed = "none"
  /\ engine_read = NoRec /\ cached_over = NoRec

NextFingerprint == ComputeFingerprint

SpecFingerprint == InitFingerprint /\ [][NextFingerprint]_vars

(* One uploaded document, its ingestion task scheduled (and scheduled      *)
(* again by up to MaxRuns - 1 retries), and up to MaxDeletes delete        *)
(* requests for it, in every interleaving.                                 *)
InitDeletion ==
  /\ PipelineIdle /\ EmbedIdle /\ WindowIdle /\ ClientIdle /\ QueryIdle
  /\ SummaryIdle /\ OthersIdle
  /\ document = [status |-> "processing", lightrag_id |-> DefaultLightragId]
  /\ job_pc = "scheduled"
  /\ prefixed_doc_id = 1
  /\ engine_docs = {} /\ del_pc = "off" /\ lightrag_id = 0
  /\ deletes = 0 /\ del_response = 0

NextDeletion ==
  \/ \E rag \in BOOLEAN : IngestBegin(rag)
  \/ \E ok \in BOOLEAN : IngestInserted(ok)
  \/ IngestCompleted
  \/ RetryFailed
  \/ DeleteBegin
  \/ \E ok \in BOOLEAN : DeleteInstance(ok)
  \/ \E ok \in BOOLEAN : DeleteEngine(ok)
  \/ \E ok \in BOOLEAN : DeleteCleared(ok)

SpecDeletion == InitDeletion /\ [][NextDeletion]_vars

(* One request that builds an engine instance: create_notebook with any    *)
(* two provider configurations, or query_notebook with any override        *)
(* configuration and the stored embedding configuration of a notebook,     *)
(* which is a resolved one that passed the validation at creation.         *)
StoredConfigs ==
  {auto_detect_provider_type(c) : c \in ProviderConfigs} \
    {c \in ProviderConfigs : MissingKey(c)}

InitConfig ==
  /\ PipelineIdle /\ EmbedIdle /\ WindowIdle /\ ClientIdle /\ QueryIdle
  /\ SummaryIdle /\ DeletionIdle /\ PersistIdle /\ LaterIdle
  /\ cfg_pc = "received"
  /\ caller \in Callers
  /\ llm_provider \in ProviderConfigs
  /\ embedding_provider \in
       (IF caller = "create_notebook" THEN ProviderConfigs ELSE StoredConfigs)
  /\ corrected_llm_provider = NoConfig
  /\ corrected_embedding_provider = NoConfig
  /\ provider_calls = 0 /\ http_status = 0

NextConfig ==
  \/ ValidateProviders
  \/ \E ok \in BOOLEAN : InstanceCreated(ok)

SpecConfig == InitConfig /\ [][NextConfig]_vars

(* Every operation on one notebook that changes a collection, in every     *)
(* interleaving: one upload request at a time, up to MaxDocs documents,    *)
(* up to MaxChats chat requests.                                           *)
InitPersist ==
  /\ PipelineIdle /\ EmbedIdle /\ WindowIdle /\ ClientIdle /\ QueryIdle
  /\ SummaryIdle /\ DeletionIdle /\ ConfigIdle /\ LaterIdle
  /\ PersistIdle

NextPersist ==
  \/ PCreateBegin
  \/ PCreateFails
  \/ PCreateEnd
  \/ PDeleteNotebook
  \/ PUploadBegin
  \/ \E kind \in UploadKinds, last \in BOOLEAN : PUploadFile(kind, last)
  \/ \E d \in DocIds, rag \in BOOLEAN : PJobBegin(d, rag)
  \/ \E d \in DocIds, ok \in BOOLEAN : PJobEnd(d, ok)
  \/ \E d \in DocIds : PRetry(d)
  \/ \E d \in DocIds, ok \in BOOLEAN : PDeleteDocument(d, ok)
  \/ \E ok \in BOOLEAN : PSummary(ok)
  \/ \E c \in ChatIds : ChatBegin(c)
  \/ \E c \in ChatIds, rag, use_chat_history \in BOOLEAN :
       ChatInstance(c, rag, use_chat_history)
  \/ \E c \in ChatIds, ok \in BOOLEAN : ChatAnswered(c, ok)
  \/ ClearChatHistory

SpecPersist == InitPersist /\ [][NextPersist]_vars

(* Module load with anything at the paths of the three metadata files.     *)
InitLoad ==
  /\ PipelineIdle /\ EmbedIdle /\ WindowIdle /\ ClientIdle /\ QueryIdle
  /\ SummaryIdle /\ DeletionIdle /\ ConfigIdle /\ PersistIdle
  /\ CitationsIdle /\ StaggerIdle /\ InstancesIdle
  /\ metadata_files \in [Collections -> FileStates]
  /\ loaded = [k \in Collections |-> "empty"]
  /\ load_pc = 1 /\ startup = "loading"

NextLoad ==
  \/ load_notebooks_db
  \/ load_documents_db
  \/ load_chat_history_db
  \/ LoadsDone

SpecLoad == InitLoad /\ [][NextLoad]_vars

(* One query of notebook QueriedNotebook.  The dictionary holds documents  *)
(* of another notebook, then up to MaxCompleted completed documents of     *)
(* the queried one, then one still processing, then more completed ones;   *)
(* up to MaxChanges statuses change before the citations are assembled.    *)
Block(notebook_id, status, n) ==
  [j \in 1..n |-> [notebook_id |-> notebook_id, status |-> status]]
Numbered(s) ==
  [j \in 1..Len(s) |->
     [id |-> j, notebook_id |-> s[j].notebook_id, status |-> s[j].status]]
CitedDocLists ==
  {Numbered(Block(2, "completed", b) \o Block(QueriedNotebook, "completed", a)
              \o Block(QueriedNotebook, "processing", c)
              \o Block(QueriedNotebook, "completed", d)) :
     a \in 0..MaxCompleted, b \in 0..1, c \in 0..1, d \in 0..2}

InitCitations ==
  /\ PipelineIdle /\ EmbedIdle /\ WindowIdle /\ ClientIdle /\ QueryIdle
  /\ SummaryIdle /\ DeletionIdle /\ ConfigIdle /\ PersistIdle
  /\ LoadIdle /\ StaggerIdle /\ InstancesIdle
  /\ cit_documents \in CitedDocLists
  /\ cit_pc = "received" /\ citations = NoCitations /\ status_changes = 0

NextCitations ==
  \/ CitedQueryBegin
  \/ \E j \in 1..(MaxCompleted + 4), status \in Statuses : StatusChanged(j, status)
  \/ CitationsAssembled

SpecCitations == InitCitations /\ [][NextCitations]_vars

(* One upload request of up to MaxFiles files, one of which may have no    *)
(* name, no text, or may raise while it is read; then its tasks.           *)
UploadLists ==
  {[j \in 1..n |-> IF j = p THEN kind ELSE "file"] :
     n \in 0..MaxFiles, p \in 0..MaxFiles, kind \in {"noname", "empty", "error"}}

InitStagger ==
  /\ PipelineIdle /\ EmbedIdle /\ WindowIdle /\ ClientIdle /\ QueryIdle
  /\ SummaryIdle /\ DeletionIdle /\ ConfigIdle /\ PersistIdle
  /\ LoadIdle /\ CitationsIdle /\ InstancesIdle
  /\ upload_files \in UploadLists
  /\ file_index = 0 /\ delayed_tasks = <<>> /\ stagger_pc = "received"
  /\ running = 0 /\ slept_seconds = <<>> /\ processing = {}

NextStagger ==
  \/ NoFilesProvided
  \/ StaggerFile
  \/ StaggerResponded
  \/ StaggerSlept
  \/ StaggerProcessed

SpecStagger == InitStagger /\ [][NextStagger]_vars

(* The same call, where a sleep that was started elapses and a request     *)
(* that was sent is answered or times out after request_timeout.           *)
SpecRetryFair ==
  /\ InitRetry /\ [][NextRetry]_vars
  /\ WF_vars(RetryDelayElapsed)
  /\ WF_vars(AttemptOk \/ \E f \in Failures : AttemptFails(f))

(* The same operations, where an upload request comes to its last file     *)
(* and every engine call of a task that was started returns or raises.     *)
SpecPersistFair ==
  /\ InitPersist /\ [][NextPersist]_vars
  /\ WF_vars(\E kind \in UploadKinds : PUploadFile(kind, TRUE))
  /\ WF_vars(\E d \in DocIds, rag \in BOOLEAN : PJobBegin(d, rag))
  /\ WF_vars(\E d \in DocIds, ok \in BOOLEAN : PJobEnd(d, ok))

InitInstances ==
  /\ PipelineIdle /\ EmbedIdle /\ WindowIdle /\ ClientIdle /\ QueryIdle
  /\ SummaryIdle /\ DeletionIdle /\ ConfigIdle /\ PersistIdle
  /\ LoadIdle /\ CitationsIdle /\ StaggerIdle
  /\ cached_notebook = TRUE /\ lightrag_instances = 0
  /\ get_pc = [k \in Getters |-> "idle"]
  /\ returned_rag = [k \in Getters |-> 0]
  /\ instances_built = 0

NextInstances ==
  \/ \E k \in Getters, ok \in BOOLEAN : GetInstanceBegin(k, ok)
  \/ \E k \in Getters : GetInstanceEnd(k)
  \/ DeleteCachedNotebook

SpecInstances == InitInstances /\ [][NextInstances]_vars

(* ------------------------------ properties ------------------------------ *)
StatusOf(db, d) == db[d].status
Kept(d) == DocExists(d) /\ lightrag_documents_db'[d] # NoRec
AcceptedRetry(d) ==
  \E n \in NotebookIds : RetryDocument(n, d) /\ RetryResponse(n, d).code = 200

\* C1: in any interleaving of uploads, jobs, retries and deletes a document's
\* status changes only processing -> completed, processing -> failed, or
\* failed -> processing, the last only in the step of an accepted retry
\* request; a completed document never changes status.
C1_StatusTransitions ==
  [][\A d \in DocIds :
       (Kept(d) /\ StatusOf(lightrag_documents_db', d) #
                   StatusOf(lightrag_documents_db, d))
       => \/ /\ StatusOf(lightrag_documents_db, d) = "processing"
             /\ StatusOf(lightrag_documents_db', d) \in {"completed", "failed"}
          \/ /\ StatusOf(lightrag_documents_db, d) = "failed"
             /\ StatusOf(lightrag_documents_db', d) = "processing"
             /\ AcceptedRetry(d)]_vars

\* a document that reached the engine once, failed, and is scheduled again
C1_Witness ==
  \E q \in BagToSet(queues) :
    /\ q.pc = "scheduled"
    /\ Head(q.jobs).doc \in inserted
    /\ DocExists(Head(q.jobs).doc)
    /\ lightrag_documents_db[Head(q.jobs).doc].status = "processing"

NotFailed(d) ==
  DocExists(d) /\ lightrag_documents_db[d].status \in {"processing", "completed"}

\* C2: a retry request (to an existing notebook) for a document that is
\* processing or completed is answered 400, and its step changes no document
\* record and schedules no job.
C2_RetryRejected ==
  /\ [](\A n \in NotebookIds, d \in DocIds :
          (NotebookExists(n) /\ NotFailed(d)) => RetryResponse(n, d).code = 400)
  /\ [][\A n \in NotebookIds, d \in DocIds :
          (NotebookExists(n) /\ NotFailed(d) /\ RetryDocument(n, d))
          => /\ lightrag_documents_db' = lightrag_documents_db
             /\ queues' = queues]_vars

\* a completed and a processing document, each refused for its state
C2_Witness ==
  \E n \in NotebookIds, d, e \in DocIds :
    /\ DocExists(d) /\ lightrag_documents_db[d].status = "completed"
    /\ DocExists(e) /\ lightrag_documents_db[e].status = "processing"
    /\ RetryResponse(n, d) = Response(400, "state")
    /\ RetryResponse(n, e) = Response(400, "state")

IsFailed(n, d) ==
  /\ NotebookExists(n) /\ DocExists(d)
  /\ lightrag_documents_db[d].notebook_id = n
  /\ lightrag_documents_db[d].status = "failed"

\* C3: a retry request for a failed document is accepted, and after its step
\* the document is processing and reports no error.
C3_RetryClearsError ==
  /\ [](\A n \in NotebookIds, d \in DocIds :
          IsFailed(n, d) => RetryResponse(n, d).code = 200)
  /\ [][\A n \in NotebookIds, d \in DocIds :
          (IsFailed(n, d) /\ RetryDocument(n, d))
          => /\ lightrag_documents_db'[d].status = "processing"
             /\ ~lightrag_documents_db'[d].error]_vars

\* C4: every failed document has its content in the record or in its
\* overflow file, so no retry of a failed document is answered "content not
\* available"; a record loses its content only in the step that makes the
\* document completed.
C4_FailedKeepsContent ==
  /\ [](\A d \in DocIds :
          (DocExists(d) /\ lightrag_documents_db[d].status = "failed")
          => /\ ContentAvailable(lightrag_documents_db[d])
             /\ \A n \in NotebookIds : RetryResponse(n, d).detail # "content")
  /\ [][\A d \in DocIds :
          (Kept(d) /\ ContentAvailable(lightrag_documents_db[d])
                   /\ ~ContentAvailable(lightrag_documents_db'[d]))
          => /\ lightrag_documents_db[d].status # "completed"
             /\ lightrag_documents_db'[d].status = "completed"]_vars

\* a document with an overflow file that failed in the engine, and a
\* completed one whose content is gone
C4_Witness ==
  \E d, e \in DocIds :
    /\ DocExists(d) /\ lightrag_documents_db[d].status = "failed"
    /\ lightrag_documents_db[d].content_file /\ d \in inserted
    /\ DocExists(e) /\ lightrag_documents_db[e].status = "completed"
    /\ ~ContentAvailable(lightrag_documents_db[e])

\* C5: in every reachable state (after every step of every handler and job)
\* the document_count of each notebook equals the number of document records
\* whose notebook_id is that notebook.
C5_CountMatchesRecords ==
  \A n \in NotebookIds :
    NotebookExists(n) =>
      lightrag_notebooks_db[n].document_count =
        Cardinality(DocsOf(lightrag_documents_db, n))

\* the only notebook ever created got two documents and lost one of them to
\* a document delete
C5_Witness ==
  /\ nextNb = 2 /\ nextDoc = 3
  /\ NotebookExists(1)
  /\ lightrag_notebooks_db[1].document_count = 1
  /\ Cardinality(DocsOf(lightrag_documents_db, 1)) = 1

\* a suspended request is answered in this step
RequestEnds == BagCardinality(reqs') < BagCardinality(reqs)

\* the documents created by upload request u once a file of this kind is done
UploadedDocs(u, kind) ==
  {u.tasks[i].doc : i \in 1..Len(u.tasks)} \cup
    (IF kind \in {"ok", "big"} THEN {nextDoc} ELSE {})

\* C6: in the step that produces the 200 response of an upload that created N
\* documents, no engine call has been made for any of them and their jobs
\* are only now scheduled; and, unless another handler changed the notebook's
\* documents meanwhile, document_count is N more than when the request
\* began and the N documents exist in status processing.
C6_UploadResponse ==
  [][\A u \in BagToSet(reqs), kind \in FileKinds, wrote, last \in BOOLEAN :
       (/\ RequestEnds
        /\ u.op = "upload"
        /\ UploadFileResponse(u, kind, last).code = 200
        /\ UploadFile(u, kind, wrote, last))
       => LET docs == UploadedDocs(u, kind) IN
          /\ docs \cap inserted' = {}
          /\ \A q \in BagToSet(queues), i \in 1..MaxDocs :
               i <= Len(q.jobs) => q.jobs[i].doc \notin docs
          /\ \A q \in BagToSet(queues') :
               (\E i \in 1..Len(q.jobs) : q.jobs[i].doc \in docs)
               => q.pc = "scheduled"
          /\ u.quiet =>
               /\ lightrag_notebooks_db'[u.nb].document_count =
                    u.c0 + Cardinality(docs)
               /\ \A d \in docs :
                    /\ lightrag_documents_db'[d] # NoRec
                    /\ lightrag_documents_db'[d].status = "processing"
                    /\ lightrag_documents_db'[d].notebook_id = u.nb]_vars

\* the response of a two-file upload has just been sent: both documents are
\* counted and processing, their jobs queued, nothing inserted
C6_Witness ==
  \E q \in BagToSet(queues) :
    /\ q.pc = "scheduled" /\ Len(q.jobs) = 2
    /\ inserted = {}
    /\ \A i \in 1..2 :
         /\ DocExists(q.jobs[i].doc)
         /\ lightrag_documents_db[q.jobs[i].doc].status = "processing"
    /\ lightrag_notebooks_db[q.jobs[1].nb].document_count = 2

Returned == ephase = "done" /\ outcome.kind = "returned"

\* C7: whenever the embedding function returns, whatever the backend
\* rejected on the way, the result has one vector per input text, the i-th
\* computed from the i-th text and of the backend's dimension (the windows
\* of a re-chunked text being aggregated into that one vector).
C7_OrderAndCount ==
  Returned =>
    /\ Len(final_embeddings) = Len(texts)
    /\ \A i \in 1..Len(final_embeddings) : final_embeddings[i] = Vector(i)

\* C8: every invocation of batch_embed_texts has a batch size of at least 1,
\* and an invocation that follows a 'too large' failure has a batch size
\* strictly smaller than the invocation that failed.
C8_BatchSizeShrinks ==
  /\ [](ephase = "invoke" => batch_size >= 1)
  /\ [][(ephase = "loop" /\ ephase' = "invoke")
          => batch_size' < batch_size]_vars

\* C9: a 'too large' error reaches the caller of the embedding function only
\* from the window calls of a re-chunked text (or for a single text too short
\* to be re-chunked, once the batch size is down to 1): never from a call made
\* while halving or windowing was still untried.
C9_TooLargeSurfaced ==
  (ephase = "done" /\ outcome.kind = "too_large")
    => outcome.at \in {"window", "single"}

CeilDiv(a, b) == (a + b - 1) \div b
Window == wparams[1]
Overlap == wparams[1] - wparams[2]
Windowed == chunks # <<>> /\ wtext > Window

\* C10 as stated: a text of L > W characters gives ceil((L - O) / (W - O))
\* windows, for (W, O) = (200, 20) and (400, 50).
C10_AsStated ==
  Windowed => Len(chunks) = CeilDiv(wtext - Overlap, Window - Overlap)

\* C10: a text of L > W characters gives ceil(L / (W - O)) windows, for
\* (W, O) = (200, 20) and (400, 50): one window per start 0, W-O, 2(W-O), ...
\* below L.
C10_WindowCount ==
  Windowed => Len(chunks) = CeilDiv(wtext, Window - Overlap)

\* 710 characters in windows of 400 with overlap 50: three windows, the last
\* one of 10 characters
C10_Witness ==
  /\ wtext = 710 /\ wparams = <<400, 350>>
  /\ Len(chunks) = 3
  /\ chunks[3] = [lo |-> 700, hi |-> 710]

\* C11: the windows of a text of L characters are, in order, the slices
\* [k*(W-O) : min(k*(W-O)+W, L)] for k = 0, 1, ...: none is empty or longer
\* than W, consecutive ones start W-O apart, the last ends at L, and each
\* starts no later than the end of the one before, so the text is covered.
C11_WindowSlices ==
  chunks # <<>> =>
    /\ \A k \in 1..Len(chunks) :
         /\ chunks[k].lo = (k - 1) * (Window - Overlap)
         /\ chunks[k].hi = Min(chunks[k].lo + Window, wtext)
         /\ chunks[k].hi - chunks[k].lo \in 1..Window
    /\ chunks[1].lo = 0
    /\ chunks[Len(chunks)].hi = wtext
    /\ \A k \in 1..(Len(chunks) - 1) : chunks[k + 1].lo <= chunks[k].hi

\* 900 characters, windows of 400 with overlap 50
C11_Witness ==
  /\ wtext = 900 /\ wparams = <<400, 350>>
  /\ chunks = <<[lo |-> 0, hi |-> 400], [lo |-> 350, hi |-> 750],
                [lo |-> 700, hi |-> 900]>>

\* C12: one call of the retrying client makes at most 5 backend requests for
\* the local gateway and at most 2 for a remote provider, whatever the
\* backend does; it returns on the first request that succeeds, and once it
\* has returned or raised it makes no further request.
C12_AttemptCap ==
  /\ [](/\ calls <= (IF is_clara_core_embedding THEN 5 ELSE 2)
        /\ calls \in {attempt, attempt + 1}
        /\ (rphase = "returned" => calls = attempt + 1))
  /\ [][(rphase \in {"returned", "raised"}) => (calls' = calls)]_vars

\* the local gateway answers on the fifth request, after four sleeps
C12_Witness ==
  /\ is_clara_core_embedding /\ rphase = "returned"
  /\ calls = 5 /\ slept = 4

\* the failures the claim names: authentication, not found, model not found
FatalFailures ==
  {[cls |-> "Exception", words |-> ws] :
     ws \in {{"unauthorized"}, {"not found"}, {"model", "not found"}}}

\* C13: an authentication failure or a 'not found' failure ('model not
\* found' included) leaves the call in the attempt where it occurs: the
\* exception is raised, with no sleep and no further attempt.
C13_FatalAborts ==
  [][\A f \in FatalFailures :
       AttemptFails(f) => /\ rphase' = "raised"
                          /\ raised' = f
                          /\ slept' = slept]_vars

\* C14: a failure whose message says 'too large' or 'batch size' is raised
\* unchanged in the attempt where it first occurs, whatever else the message
\* contains: no sleep, no further attempt.
C14_BatchSizeReraised ==
  [][\A f \in Failures :
       (f.words \cap BatchSizeKeywords # {} /\ AttemptFails(f))
       => /\ rphase' = "raised"
          /\ raised' = f
          /\ slept' = slept]_vars

(* C15: a query attempted in mode global whose context size error is       *)
(* answered by a call in mode local with top_k at most 20 is, when that    *)
(* call raises a context size error too, retried in mode naive with        *)
(* top_k 5 and Single Paragraph; an error of that class reaches the        *)
(* caller only after this third call.                                      *)
C15_LadderOfThree ==
  /\ (Len(engine_calls) >= 2 /\ engine_calls[1].mode = "global")
       => (engine_calls[2].mode = "local"
           /\ engine_calls[2].top_k <= GlobalFallbackTopK)
  /\ (qphase = "failed" /\ qerror = "context" /\ engine_calls[1].mode = "global")
       => (Len(engine_calls) = 3
           /\ engine_calls[3] = QueryParam("naive", "Single Paragraph", MinimalTopK))

\* the mode, format and top_k the statement gives for the fallback call
StatedFallback(attempted, q) ==
  IF attempted = "global"
  THEN QueryParam("local", q.response_type, Min(20, q.top_k))
  ELSE IF attempted = "hybrid"
  THEN QueryParam("naive", q.response_type, Min(15, q.top_k))
  ELSE QueryParam("naive", "Single Paragraph", 5)

(* C16: at most one fallback call follows the first engine call; it is     *)
(* made when the first call raised a context size error, with the mode,    *)
(* format and top_k fixed by the mode of the first call; a context size    *)
(* error reaches the caller only from the fallback call; the mode of       *)
(* the response is the mode of the call that produced the answer.          *)
C16_SingleFallback ==
  /\ Len(engine_calls) <= 2
  /\ (qphase = "fallback") => (Len(engine_calls) = 2)
  /\ (Len(engine_calls) = 2)
       => (engine_calls[2] = StatedFallback(engine_calls[1].mode, query))
  /\ (qphase = "failed" /\ qerror = "context") => (Len(engine_calls) = 2)
  /\ (qphase = "answered") => (adjusted_mode = LastCall.mode)

C16_Witness ==
  /\ qphase = "answered"
  /\ query.mode = "global" /\ query.top_k > SmallModelTopK
  /\ Len(engine_calls) = 2
  /\ engine_calls[1].mode = "hybrid"
  /\ engine_calls[2] = QueryParam("naive", query.response_type, HybridFallbackTopK)
  /\ adjusted_mode = "naive"

\* every order in which a dictionary can enumerate the documents
Orders(docs) ==
  {[i \in 1..Len(docs) |-> docs[p[i]]] :
     p \in {f \in [1..Len(docs) -> 1..Len(docs)] :
              \A i, j \in 1..Len(docs) : (i # j) => (f[i] # f[j])}}

\* the (id, uploaded_at) pairs of the completed documents
CompletedPairs(docs) ==
  {DocKey(docs[i]) : i \in {j \in 1..Len(docs) : docs[j].status = "completed"}}

\* the sets of pairs a notebook's completed documents can form
PairSets ==
  {S \in SUBSET (DocIds \X (1..MaxClock)) :
     \A a, b \in S : (a[1] = b[1]) => (a = b)}

RECURSIVE DocsOfPairs(_)
DocsOfPairs(S) ==
  IF S = {} THEN <<>>
  ELSE LET k == CHOOSE x \in S : TRUE
       IN <<[id |-> k[1], uploaded_at |-> k[2], status |-> "completed"]>>
            \o DocsOfPairs(S \ {k})

(* C17: the fingerprint computed for a notebook is the same for every      *)
(* order of its documents, and it is the fingerprint of exactly one set    *)
(* of (id, uploaded_at) pairs of completed documents: every other set,     *)
(* one document more or less or one id or time changed, gives another.     *)
C17_FingerprintOfSet ==
  (current_docs_fingerprint # NoRec) =>
    /\ \A l \in Orders(notebook_docs) :
         Stored(Fingerprint(CompletedDocs(l))) = current_docs_fingerprint
    /\ \A S \in PairSets :
         (Stored(Fingerprint(DocsOfPairs(S))) = current_docs_fingerprint)
           <=> (S = CompletedPairs(notebook_docs))

C17_Witness ==
  /\ current_docs_fingerprint # NoRec
  /\ Len(notebook_docs) = 2
  /\ notebook_docs[1].id > notebook_docs[2].id
  /\ \A i \in 1..2 : notebook_docs[i].status = "completed"
  /\ notebook_docs[1].uploaded_at < notebook_docs[2].uploaded_at

\* a step in which a summary request is received
SummaryReceived == started' = started + 1

\* the request received in this step is answered in it, without the engine,
\* as the request before it was
AnsweredAsBefore ==
  /\ current_docs_fingerprint' = NoRec
  /\ summary_queries' = summary_queries
  /\ last_summary'.answer = last_summary.answer
  /\ last_summary'.mode = last_summary.mode
  /\ last_summary'.context_used = last_summary.context_used

\* no completion or deletion since the answered request before read the documents
RepeatedUnchanged ==
  (SummaryReceived /\ last_summary # NoRec /\ changed = "none")
    => (last_summary.code = 200 => AnsweredAsBefore)

\* C18 as stated: after any completion or deletion the next request
\* queries the engine
C18_AsStated ==
  [][/\ RepeatedUnchanged
     /\ (SummaryReceived /\ last_summary # NoRec /\ changed = "after")
          => (summary_queries' = summary_queries + 1)]_vars

(* C18: a summary request that follows an answered one with no document    *)
(* completed or deleted since is answered without an engine query, with    *)
(* the same answer, mode and context flag; one that follows a completion   *)
(* or deletion issues a new engine query provided the notebook still has   *)
(* a completed document.                                                    *)
C18_RepeatAndRefresh ==
  [][/\ RepeatedUnchanged
     /\ (SummaryReceived /\ last_summary # NoRec /\ changed = "after"
           /\ CompletedDocs(notebook_docs) # <<>>)
          => (summary_queries' = summary_queries + 1)]_vars

C18_Witness ==
  /\ started = 3
  /\ summary_queries = 2
  /\ current_docs_fingerprint # NoRec
  /\ last_summary # NoRec
  /\ last_summary.source = "cache"

(* C19: a request is answered from the stored summary only when the stored *)
(* fingerprint is the fingerprint of the documents completed at that       *)
(* moment; with a summary stored under another fingerprint the request     *)
(* queries the engine.                                                     *)
C19_CacheOnlyIfCurrent ==
  [][/\ (SummaryReceived /\ last_summary' # NoRec
           /\ last_summary'.source = "cache"
           /\ summary_queries' = summary_queries)
          => (/\ summary_cache # NoRec
              /\ last_summary'.answer = summary_cache.answer
              /\ docs_fingerprint =
                   Stored(Fingerprint(CompletedDocs(notebook_docs))))
     /\ (SummaryReceived /\ summary_cache # NoRec
           /\ CompletedDocs(notebook_docs) # <<>>
           /\ docs_fingerprint #
                Stored(Fingerprint(CompletedDocs(notebook_docs))))
          => (summary_queries' = summary_queries + 1)]_vars

C19_Witness ==
  /\ last_summary # NoRec
  /\ last_summary.source = "cache"
  /\ current_docs_fingerprint = NoRec
  /\ Len(CompletedDocs(notebook_docs)) = MaxDocs
  /\ docs_fingerprint = Stored(Fingerprint(CompletedDocs(notebook_docs)))

\* a summary is stored under a fingerprint that is not the current one
C19_StaleStored ==
  /\ summary_cache # NoRec
  /\ CompletedDocs(notebook_docs) # <<>>
  /\ docs_fingerprint # Stored(Fingerprint(CompletedDocs(notebook_docs)))
  /\ current_docs_fingerprint = NoRec
  /\ started < MaxSummaries

(* C20: once a delete request for the document was answered with          *)
(* success, the engine holds no entry inserted for it, whatever its        *)
(* ingestion task was doing and does afterwards.                           *)
C20_NoEntryAfterDelete ==
  (del_response = 200) => (engine_docs = {})

\* a delete of the completed document, with no task running, removes its entry
C20_CompletedDeleted ==
  [][(del_pc = "clearing" /\ del_response' = 200 /\ job_pc = "off"
       /\ prefixed_doc_id = 1 /\ document.status = "completed"
       /\ lightrag_id = document.lightrag_id)
      => (engine_docs' = {})]_vars

(* C21: when rag.aclear_cache raises in a delete request whose document    *)
(* and notebook are still there, the step that ends the request removes    *)
(* the document record and decrements the notebook's document_count, and   *)
(* the request is answered with success.                                   *)
C21_CacheFailureTolerated ==
  [][\A x \in BagToSet(reqs) :
       (x.op = "delete" /\ DocExists(x.doc) /\ NotebookExists(x.nb)
          /\ DeleteDocumentEnd(x, "cache"))
       => /\ DeleteEndResponse(x, "cache").code = 200
          /\ lightrag_documents_db'[x.doc] = NoRec
          /\ lightrag_notebooks_db'[x.nb].document_count =
               lightrag_notebooks_db[x.nb].document_count - 1]_vars

\* the configuration error of the statement: not self-hosted, not the local
\* gateway, credential missing or the placeholder
StatedConfigurationError(c) ==
  /\ TypeOf(c) # "ollama"
  /\ c.baseUrl # "http://localhost:8091/v1"
  /\ c.apiKey \in {"absent", "", "your-api-key"}

\* self-hosted or local gateway, without a credential
StatedKeyless(c) ==
  /\ TypeOf(c) = "ollama" \/ c.baseUrl = "http://localhost:8091/v1"
  /\ c.apiKey \in {"absent", ""}

\* the request passes its configurations to create_lightrag_instance
InstanceRequested == cfg_pc = "received" /\ cfg_pc' # "received"

ValidatedAsStated ==
  /\ (StatedConfigurationError(corrected_llm_provider')
       \/ StatedConfigurationError(corrected_embedding_provider'))
      => (http_status' = 400 /\ provider_calls' = 0)
  /\ (StatedKeyless(corrected_llm_provider')
       /\ StatedKeyless(corrected_embedding_provider'))
      => (cfg_pc' = "initializing")

(* C22: a request whose LLM or embedding configuration is a configuration  *)
(* error is answered 400 in the step that validates it, before any         *)
(* provider call; a request with two keyless self-hosted or local gateway  *)
(* configurations is not refused by the validation.                        *)
C22_ConfigurationError ==
  [][InstanceRequested => ValidatedAsStated]_vars

\* the same for create_notebook alone
C22_CreateNotebook ==
  [][(InstanceRequested /\ caller = "create_notebook") => ValidatedAsStated]_vars

\* the resolution the statement describes
StatedResolution(c) ==
  IF c.type = "ollama" THEN c
  ELSE IF c.baseUrl \in {"https://api.openai.com/v1", "https://api.openai.com"}
  THEN [type |-> "openai", baseUrl |-> c.baseUrl, apiKey |-> c.apiKey]
  ELSE [type |-> "openai_compatible", baseUrl |-> c.baseUrl, apiKey |-> c.apiKey]

(* C23: the configurations create_notebook stores and passes on are the    *)
(* resolutions of the ones it was given: ollama unchanged, otherwise       *)
(* openai for the public origin and openai_compatible for any other        *)
(* address whatever type was declared; resolving them again changes        *)
(* nothing; the configurations of the request are never modified.          *)
C23_ProviderResolver ==
  /\ []((caller = "create_notebook" /\ cfg_pc # "received") =>
          /\ corrected_llm_provider = StatedResolution(llm_provider)
          /\ corrected_embedding_provider = StatedResolution(embedding_provider)
          /\ auto_detect_provider_type(corrected_llm_provider)
               = corrected_llm_provider
          /\ auto_detect_provider_type(corrected_embedding_provider)
               = corrected_embedding_provider)
  /\ [][llm_provider' = llm_provider
         /\ embedding_provider' = embedding_provider]_vars

C23_Witness ==
  /\ caller = "create_notebook" /\ cfg_pc = "created"
  /\ llm_provider.type = "openai"
  /\ llm_provider.baseUrl = "https://llm.example.com/v1"
  /\ corrected_llm_provider.type = "openai_compatible"
  /\ embedding_provider.type = "anthropic"
  /\ embedding_provider.baseUrl = "https://api.openai.com"
  /\ corrected_embedding_provider.type = "openai"

\* no request is between two of its steps
Quiescent ==
  /\ nb_pc # "creating"
  /\ upload_pc = "off"
  /\ \A c \in ChatIds : chats[c] \notin {"instance", "query"}

\* C24: whenever every mutating operation that started has finished,
\* successfully or not, each of the three metadata files holds exactly the
\* collection that is in memory.
C24_FilesEqualMemory ==
  Quiescent => /\ notebooks_file = mem_notebook
               /\ documents_file = mem_documents
               /\ chat_history_file = chat_history_db

IsPrefix(s, t) == Len(s) <= Len(t) /\ SubSeq(t, 1, Len(s)) = s
\* the step of clear_chat_history: the key goes away, no chat request moves
ClearStep ==
  chat_history_db.present /\ chat_history_db' = NoHistory /\ chats' = chats

\* C27: the chat history only grows by appending.  Every step other than
\* the clear-history request keeps the messages it finds, in their order,
\* as the front of the new history; a chat request appends exactly its user
\* message when it begins and, when it succeeds, exactly its assistant
\* message after that.
C27_AppendOnly ==
  [][/\ (~ClearStep) =>
          /\ chat_history_db.present => chat_history_db'.present
          /\ IsPrefix(chat_history_db.messages, chat_history_db'.messages)
     /\ \A c \in ChatIds :
          /\ (chats[c] = "off" /\ chats'[c] = "instance") =>
               (chat_history_db'.messages =
                  Append(chat_history_db.messages, Message("user", c)))
          /\ (chats[c] = "query" /\ chats'[c] = "answered") =>
               (chat_history_db'.messages =
                  Append(chat_history_db.messages, Message("assistant", c)))
     /\ (chat_history_db' # chat_history_db) =>
          \/ ClearStep
          \/ \E c \in ChatIds : /\ chats[c] \in {"off", "query"}
                                /\ chats'[c] \in {"instance", "answered"}]_vars

\* two chat requests in flight at once, both answered: the four messages
\* are in the order in which they were appended
C27_Witness ==
  /\ \A c \in ChatIds : chats[c] = "answered"
  /\ chat_history_db.messages =
       <<Message("user", 1), Message("user", 2),
         Message("assistant", 2), Message("assistant", 1)>>

\* C25: no load makes the module fail; after its load a collection whose
\* file is missing, unreadable or malformed is empty, and one whose file
\* is as a save wrote it holds the data, whatever the other two files are.
C25_TolerantLoad ==
  /\ startup # "failed"
  /\ \A n \in 1..3 :
       LET k == LoadOrder[n] IN
       (load_pc > n) =>
         /\ (metadata_files[k] \in {"missing", "unreadable", "not_json",
                                   "not_object", "bad_entry"})
              => (loaded[k] = "empty")
         /\ (metadata_files[k] = "saved") => (loaded[k] = "data")

\* started with a notebooks file that is not JSON, a documents file as
\* saved and no chat-history file
C25_Witness ==
  /\ startup = "started"
  /\ metadata_files["notebooks"] = "not_json"
  /\ metadata_files["documents"] = "saved"
  /\ metadata_files["chat_history"] = "missing"
  /\ loaded["notebooks"] = "empty" /\ loaded["documents"] = "data"

\* C26: every citation of the response is a document of the queried
\* notebook that is completed when the citations are assembled, and the
\* response has at most 10 citations.
C26_CitationsCompletedCapped ==
  (cit_pc = "answered") =>
    /\ Len(citations.ids) <= 10
    /\ \A n \in 1..Len(citations.ids) :
         \E j \in 1..Len(cit_documents) :
           /\ cit_documents[j].id = citations.ids[n]
           /\ cit_documents[j].notebook_id = QueriedNotebook
           /\ cit_documents[j].status = "completed"

\* more than ten completed documents next to one of another notebook and
\* one that failed during the query: ten citations
C26_Witness ==
  /\ cit_pc = "answered"
  /\ Len(citations.ids) = 10
  /\ status_changes = 1
  /\ Cardinality({j \in 1..Len(cit_documents) :
                    /\ cit_documents[j].notebook_id = QueriedNotebook
                    /\ cit_documents[j].status = "completed"}) > 10
  /\ \E j \in 1..Len(cit_documents) : cit_documents[j].notebook_id # QueriedNotebook
  /\ \E j \in 1..Len(cit_documents) :
       /\ cit_documents[j].notebook_id = QueriedNotebook
       /\ cit_documents[j].status = "failed"

\* C28: the task of the file at 0-based position i has the delay
\* min(3*i, 30) seconds; the delays do not decrease along the request and
\* never exceed 30; a task that has called the engine-facing
\* process_notebook_document has slept its whole delay before.
C28_StaggerDelay ==
  /\ \A t \in 1..Len(delayed_tasks) :
       /\ delayed_tasks[t].delay_seconds =
            (IF 3 * delayed_tasks[t].position < 30
             THEN 3 * delayed_tasks[t].position ELSE 30)
       /\ delayed_tasks[t].delay_seconds <= 30
       /\ upload_files[delayed_tasks[t].position + 1] = "file"
  /\ \A s, t \in 1..Len(delayed_tasks) :
       (delayed_tasks[s].position <= delayed_tasks[t].position)
         => (delayed_tasks[s].delay_seconds <= delayed_tasks[t].delay_seconds)
  /\ \A t \in processing :
       slept_seconds[t] >= delayed_tasks[t].delay_seconds

\* an upload of more than eleven files, one of them skipped: the task of
\* the last file has slept the capped delay and has run
C28_Witness ==
  /\ Len(upload_files) > 11
  /\ Len(delayed_tasks) = Len(upload_files) - 1
  /\ processing = 1..Len(delayed_tasks)
  /\ delayed_tasks[Len(delayed_tasks)].position = Len(upload_files) - 1
  /\ slept_seconds[Len(delayed_tasks)] = 30

\* a timeout, or a message with one of the words the claim names
StatedRetryable(f) ==
  \/ f.cls = "TimeoutError"
  \/ f.words \cap {"connection", "timeout", "loading", "model"} # {}
StatedFinal == attempt = (IF is_clara_core_embedding THEN 5 ELSE 2) - 1
StatedDelay == IF is_clara_core_embedding THEN 10 ELSE 3

\* C29: a retryable failure of an attempt that is not the last one puts
\* the client to sleep without raising; the sleep is one delay of 10 s
\* (local gateway) or 3 s (remote) and is followed by the next attempt; a
\* failure of the last attempt is raised without a sleep.
C29_OneDelayThenRetry ==
  /\ [][/\ \A f \in Failures :
            (AttemptFails(f) /\ StatedRetryable(f) /\ ~StatedFinal) =>
              (rphase' = "sleeping" /\ raised' = NoError /\ sleeps' = sleeps)
        /\ (rphase = "sleeping") =>
              /\ rphase' = "calling"
              /\ attempt' = attempt + 1
              /\ calls' = calls
              /\ sleeps' = Append(sleeps, StatedDelay)
        /\ \A f \in Failures :
            (AttemptFails(f) /\ StatedFinal) =>
              (rphase' = "raised" /\ raised' # NoError /\ sleeps' = sleeps)
        /\ (rphase \in {"raised", "returned"}) => (sleeps' = sleeps)]_vars
  /\ \A n \in 0..4 :
       (rphase = "sleeping" /\ attempt = n /\ calls = n + 1)
         ~> (rphase \in {"returned", "sleeping", "raised"} /\ calls = n + 2)

\* the remote client failed twice: one delay of 3 s between its two
\* attempts, none after the second, whose failure was raised
C29_Witness ==
  /\ ~is_clara_core_embedding
  /\ rphase = "raised" /\ calls = 2 /\ sleeps = <<3>>

\* the configurations the statement's ladder gives for a starting mode:
\* the mode itself, then one step down at a time until naive
LadderSteps(mode) == IF mode = "global" THEN 3 ELSE 2

\* C30: when the first engine call fails with an error that is not of the
\* context size class, the request fails with that error and the engine
\* was called exactly once; no request calls the engine more often than
\* the ladder of its mode has steps.
C30_NoRetryOfOtherErrors ==
  /\ [][(QueryFails("other")) =>
          /\ qphase' = "failed" /\ qerror' = "other"
          /\ Len(engine_calls') = 1]_vars
  /\ [](/\ Len(engine_calls) <= LadderSteps(query.mode)
        /\ (qphase # "received") =>
             (Len(engine_calls) <= LadderSteps(engine_calls[1].mode))
        /\ (qphase = "failed" /\ Len(engine_calls) = 1) => (qerror = "other"))

\* a global query whose only engine call failed for another reason
C30_Witness ==
  /\ qphase = "failed" /\ qerror = "other"
  /\ Len(engine_calls) = 1
  /\ engine_calls[1].mode = "global"

\* C31: a step that changes the set of completed documents leaves the
\* notebook with neither a stored summary nor a stored fingerprint, and a
\* summary request that stores its answer stores it under the fingerprint
\* of the documents completed at that moment, also when it began before a
\* completion or deletion.
C31_NoStaleSummaryStored ==
  [][/\ (CompletedDocs(notebook_docs') # CompletedDocs(notebook_docs))
          => (summary_cache' = NoRec /\ docs_fingerprint' = NoRec)
     /\ (current_docs_fingerprint # NoRec /\ current_docs_fingerprint' = NoRec
           /\ summary_cache' # NoRec)
          => (docs_fingerprint' =
                Stored(Fingerprint(CompletedDocs(notebook_docs'))))]_vars

\* the documents that have a task in a queue, running or waiting
QueuedDocs(bag) ==
  UNION {{q.jobs[i].doc : i \in 1..Len(q.jobs)} : q \in BagToSet(bag)}

\* the ingestion job of document d fails in this step
IngestionFails(d) ==
  /\ DocExists(d)
  /\ lightrag_documents_db[d].status # "failed"
  /\ lightrag_documents_db'[d] # NoRec
  /\ lightrag_documents_db'[d].status = "failed"

StatedBatchLimit(p) ==
  IF p = "clara_core" THEN 1 ELSE IF p = "ollama" THEN 4 ELSE 16

\* C33: whenever the embedder is about to make a backend call (the direct
\* call of the whole list, or the call for the current batch of the loop)
\* the call carries at most 16 texts for the remote providers, at most 4
\* for the non-gateway local provider and exactly one for the local
\* gateway; the calls for the windows of a rejected text carry one each.
C33_CallWithinProviderLimit ==
  /\ (ephase = "invoke" /\ Len(sub) <= batch_size)
       => /\ Len(sub) <= StatedBatchLimit(provider)
          /\ (provider = "clara_core") => (Len(sub) = 1)
  /\ (ephase = "loop")
       => /\ Len(Batch) >= 1
          /\ Len(Batch) <= StatedBatchLimit(provider)
          /\ (provider = "clara_core") => (Len(Batch) = 1)
  /\ (ephase \in {"invoke", "loop"}) => (batch_size <= StatedBatchLimit(provider))

\* seventeen texts for a remote provider after one reduction: the second
\* batch of eight is about to be sent
C33_Witness ==
  /\ provider = "openai_compatible"
  /\ Len(texts) = 17
  /\ ephase = "loop" /\ batch_size = 8 /\ pos = 8
  /\ Len(Batch) = 8

\* C34: a document in status processing eventually becomes completed or
\* failed (or its record is deleted), given that every upload request
\* ends and every call of a task returns or raises.
C34_ProcessingEnds ==
  \A d \in DocIds :
    (mem_documents[d] = "processing")
      ~> (mem_documents[d] \in {"completed", "failed", "absent"})

\* C35: a request answered from the stored summary returns an answer the
\* engine computed over exactly the documents that are completed when the
\* request is answered.
C35_CachedOverCurrentDocs ==
  [][(SummaryReceived /\ last_summary' # NoRec
        /\ last_summary'.source = "cache")
       => (cached_over = Stored(EngineDocs(notebook_docs)))]_vars

\* the ingestion tasks of document d that wait or run: those of the task
\* queues and those a suspended upload carries for its response
JobsOf(d, qs, rs) ==
  Cardinality(UNION {{<<q, c, j>> : c \in 1..CopiesIn(q, qs),
                                    j \in {k \in 1..Len(q.jobs) :
                                             q.jobs[k].doc = d}} :
                     q \in BagToSet(qs)})
  + Cardinality(UNION {{<<u, c, j>> : c \in 1..CopiesIn(u, rs),
                                      j \in {k \in 1..Len(u.tasks) :
                                               u.tasks[k].doc = d}} :
                       u \in {r \in BagToSet(rs) : r.op = "upload"}})

\* C36: a document never has more than one ingestion task waiting or
\* running; a step that schedules a task for a document that existed finds
\* the document failed with no task left, whatever other requests run.
C36_OneJobPerDocument ==
  [][\A d \in DocIds :
       LET before == JobsOf(d, queues, reqs)
           after == JobsOf(d, queues', reqs')
       IN /\ after <= 1
          /\ (DocExists(d) /\ after > before)
               => /\ lightrag_documents_db[d].status = "failed"
                  /\ before = 0]_vars

\* a failed document was retried: it is processing again, still carries
\* the error of the failed run, and exactly one task is queued for it
C36_Witness ==
  \E d \in DocIds :
    /\ DocExists(d)
    /\ lightrag_documents_db[d].status = "processing"
    /\ lightrag_documents_db[d].error
    /\ JobsOf(d, queues, reqs) = 1

\* C37: once delete_notebook has removed a notebook, no document record
\* names that notebook, whatever requests were in flight on it.
C37_NothingRefersToDeleted ==
  \A d \in DocIds :
    DocExists(d) => lightrag_documents_db[d].notebook_id \notin deleted_notebooks

\* C38: a creation that fails while the engine instance is built leaves
\* the notebooks in memory and the notebooks file as they were before the
\* request; the notebook is not in memory afterwards and not in the file.
C38_FailedCreateLeavesNoTrace ==
  [][(nb_pc # "refused" /\ nb_pc' = "refused")
       => /\ mem_notebook' = mem_notebook
          /\ mem_notebook' = NoRec
          /\ notebooks_file' = notebooks_file
          /\ notebooks_file' = NoRec]_vars

\* a notebook was created, used and deleted, and the next creation failed
C38_Witness ==
  /\ nb_pc = "refused"
  /\ chat_history_file.present

\* C39: a chat request that failed has left nothing in the history: the
\* user message of a failed exchange, which has no assistant reply, is
\* not in the notebook's chat history.
C39_FailedChatLeftNothing ==
  \A c \in ChatIds :
    (chats[c] = "failed") =>
      (\A i \in 1..Len(chat_history_db.messages) :
         chat_history_db.messages[i] # Message("user", c))

\* C40: while the notebook is there (its cache entry is removed only with
\* it) at most one engine instance is built for it, and all callers that
\* were given an instance were given the same one.
C40_OneInstancePerNotebook ==
  cached_notebook =>
    /\ instances_built <= 1
    /\ \A j, k \in Getters :
          (get_pc[j] = "returned" /\ get_pc[k] = "returned")
            => (returned_rag[j] = returned_rag[k])

=============================================================================
